---- MODULE Spec2Model ----
(***************************************************************************)
(* The WIRED gateway (mcp/wired-gateway/index.js): one message queue and   *)
(* one waiting resolver per channel type, the Discord messageCreate        *)
(* handler that delivers into them, the wait_for_message tool that         *)
(* consumes from them, and the timers wait_for_message starts.  The        *)
(* supervised Claude child of core/daemon.js is the caller of              *)
(* wait_for_message; it exits and is respawned by the daemon.              *)
(*                                                                         *)
(* Node runs every handler to completion on one thread, and the promise    *)
(* continuations of a handler run before the next event is taken, so one   *)
(* handler together with the continuations it triggers is one action.      *)
(*                                                                         *)
(* The second half of the module is the supervisor daemon                  *)
(* (core/daemon.js): the registry of instance state files, the startup of  *)
(* main, the two supervised children with their restart timers, shutdown,  *)
(* and the injection of text into the stdin of the Claude child.           *)
(***************************************************************************)
EXTENDS Integers, Sequences, FiniteSets, TLC

\* ---------------------------------------------------------------- bounds
MaxCalls    == 2    \* wait_for_message requests issued in one behaviour
MaxMsgs     == 3    \* Discord events accepted in one behaviour
MaxTimeout  == 1    \* largest timeout_seconds a request carries
MaxRestarts == 1    \* respawns of the Claude child in one behaviour
MaxSlots    == 4    \* instance numbers 1..MaxSlots have a state file name
MaxLeftovers == 2   \* state files found in the directory before any start
MaxSpawns   == 3    \* spawns of each child by one supervisor
MaxInjects  == 2    \* injection requests in one behaviour
MaxSignals  == 2    \* termination signals one supervisor receives
MaxAudits   == 2    \* checks of the overwatcher that decide on a correction
MaxSends    == 1    \* send_reply requests in one behaviour

\* ------------------------------------------------------------- constants
ChannelTypes == {"tars", "romilly"}

TARS_CHANNEL_ID    == "id-tars"
ROMILLY_CHANNEL_ID == "id-romilly"
OTHER_CHANNEL_ID   == "id-other"
ChannelIds == {TARS_CHANNEL_ID, ROMILLY_CHANNEL_ID, OTHER_CHANNEL_ID}

COOPER   == "cooper"
STRANGER == "stranger"
UserIds  == {COOPER, STRANGER}
Unset    == ""      \* an environment variable that is empty or missing (falsy)

NoCall == 0         \* waitingResolvers[k] = null
Undefined == "undefined"   \* an argument the request does not carry

VARIABLES
    ALLOWED_USER_ID,  \* CONFIG.ALLOWED_USER_ID, fixed when the gateway starts
    messageQueues,    \* channel type -> sequence of messageData
    waitingResolvers, \* channel type -> the call whose resolve is stored, or NoCall
    channelCache,     \* channel type -> channel id cached for replies, or Unset
    calls,            \* the wait_for_message requests so far, by call id
    claudeUp,         \* the Claude child process is running
    incarnation,      \* number of respawns of the Claude child so far
    nextStamp,        \* createdAt of the next accepted Discord event
    delivered,        \* history: channel type -> messages accepted, in order
    returned          \* history: channel type -> messages answered, in order

vars == <<ALLOWED_USER_ID, messageQueues, waitingResolvers, channelCache, calls,
          claudeUp, incarnation, nextStamp, delivered, returned>>

\* The daemon: one entry per supervisor process, keyed by its process.pid.
VARIABLES
    stateFiles,       \* instance number -> content of wired-instance-N.json
    pc,               \* supervisor -> the await of main it has reached
    instanceNumber,   \* supervisor -> its instanceNumber, or Null
    shuttingDown,     \* supervisor -> the shuttingDown flag
    claudeProcess,    \* supervisor -> handle of the Claude child
    romillyProcess,   \* supervisor -> handle of the ROMILLY child
    spawnCount,       \* supervisor -> spawns of each child so far
    claudeTimers,     \* supervisor -> pending setTimeout(spawnClaude), set times
    romillyTimers,    \* supervisor -> pending setTimeout(spawnRomilly), set times
    startTimers,      \* supervisor -> pending start-the-loop timers, set times
    sessionActive,    \* supervisor -> the sessionActive flag
    now,              \* the clock new Date() reads
    purged,           \* history: supervisor -> the files its startup scan deleted
    injections,       \* history: the injection requests and what the caller got
    stdinWrites       \* history: the lines written to the stdin of Claude children

dvars == <<stateFiles, pc, instanceNumber, shuttingDown, claudeProcess,
           romillyProcess, spawnCount, claudeTimers, romillyTimers, startTimers,
           sessionActive, now, purged, injections, stdinWrites>>

\* ------------------------------------------------------------ data shapes
\* The answer of a call that has not returned yet.
Pending == [pending |-> TRUE]

\* JSON.stringify({ timeout: true, channel_type: channelType })
TimeoutSignal(channelType) == [timeout |-> TRUE, channel_type |-> channelType]

\* messageData built by the messageCreate handler.
MessageData(msg) ==
    [channelId |-> msg.channelId, timestamp |-> msg.createdAt]

DiscordEvents ==
    [bot : BOOLEAN, authorId : UserIds, channelId : ChannelIds, createdAt : {nextStamp}]

IsMessage(r) == r # Pending /\ \A k \in ChannelTypes : r # TimeoutSignal(k)

CallIds == 1..Len(calls)
Suspended(c) == calls[c].result = Pending

\* ------------------------------------------------------------------ Init
Init ==
    /\ ALLOWED_USER_ID \in {Unset, COOPER}
    /\ messageQueues = [k \in ChannelTypes |-> <<>>]
    /\ waitingResolvers = [k \in ChannelTypes |-> NoCall]
    /\ channelCache = [k \in ChannelTypes |-> Unset]
    /\ calls = <<>>
    /\ claudeUp = TRUE
    /\ incarnation = 0
    /\ nextStamp = 1
    /\ delivered = [k \in ChannelTypes |-> <<>>]
    /\ returned = [k \in ChannelTypes |-> <<>>]

\* -------------------------------------------------- discord messageCreate
\* Routing of an event to a queue: 'tars', 'romilly', or ignored.
RouteChannel(msg) ==
    IF msg.channelId = TARS_CHANNEL_ID THEN "tars"
    ELSE IF msg.channelId = ROMILLY_CHANNEL_ID THEN "romilly"
    ELSE Undefined

\* (variant: events authored by bots are let through)
Accepted_BotsToo(msg) ==
    /\ ~(ALLOWED_USER_ID # Unset /\ msg.authorId # ALLOWED_USER_ID)
    /\ RouteChannel(msg) # Undefined

\* The two early returns on the author of the event.
Accepted(msg) ==
    /\ ~msg.bot
    /\ ~(ALLOWED_USER_ID # Unset /\ msg.authorId # ALLOWED_USER_ID)
    /\ RouteChannel(msg) # Undefined

\* Variant: resolvers are chained, so the call whose resolver was replaced is
\* resolved together with the call that replaced it.
ResolveWaiter_Chained(c, messageData) ==
    [d \in CallIds |->
        IF (d = c \/ d = calls[c].replaced) /\ calls[d].result = Pending
        THEN [calls[d] EXCEPT !.messagePromise = "resolved", !.result = messageData]
        ELSE calls[d]]

\* resolver(messageData): the stored resolve settles the message promise of the
\* call that stored it, and that call's handler returns the message.
ResolveWaiter(c, messageData) ==
    [calls EXCEPT ![c].messagePromise = "resolved",
                  ![c].result = IF calls[c].result = Pending THEN messageData ELSE @]

\* Variant: the message is pushed without looking at the waiting resolver.
Deliver_AlwaysPush(channelType, messageData) ==
    /\ messageQueues' = [messageQueues EXCEPT ![channelType] = Append(@, messageData)]
    /\ UNCHANGED <<waitingResolvers, calls, returned>>
    /\ delivered' = [delivered EXCEPT ![channelType] = Append(@, messageData)]

\* Variant: the resolver is called but waitingResolvers[channelType] is not
\* reset to null.
Deliver_KeepResolver(channelType, messageData) ==
    /\ IF waitingResolvers[channelType] # NoCall
       THEN /\ calls' = ResolveWaiter(waitingResolvers[channelType], messageData)
            /\ returned' = [returned EXCEPT ![channelType] = Append(@, messageData)]
            /\ UNCHANGED <<messageQueues, waitingResolvers>>
       ELSE /\ messageQueues' = [messageQueues EXCEPT
                                    ![channelType] = Append(@, messageData)]
            /\ UNCHANGED <<waitingResolvers, calls, returned>>
    /\ delivered' = [delivered EXCEPT ![channelType] = Append(@, messageData)]

\* if (waitingResolvers[channelType]) {...} else { push }
Deliver(channelType, messageData) ==
    /\ IF waitingResolvers[channelType] # NoCall
       THEN /\ waitingResolvers' = [waitingResolvers EXCEPT ![channelType] = NoCall]
            /\ calls' = ResolveWaiter(waitingResolvers[channelType], messageData)
            /\ returned' = [returned EXCEPT ![channelType] = Append(@, messageData)]
            /\ UNCHANGED messageQueues
       ELSE /\ messageQueues' = [messageQueues EXCEPT
                                    ![channelType] = Append(@, messageData)]
            /\ UNCHANGED <<waitingResolvers, calls, returned>>
    /\ delivered' = [delivered EXCEPT ![channelType] = Append(@, messageData)]

messageCreate(msg) ==
    /\ nextStamp <= MaxMsgs
    /\ IF Accepted(msg)
       THEN /\ Deliver(RouteChannel(msg), MessageData(msg))
            /\ channelCache' = [channelCache EXCEPT ![RouteChannel(msg)] = msg.channelId]
            /\ nextStamp' = nextStamp + 1
       ELSE UNCHANGED <<messageQueues, waitingResolvers, calls, returned, delivered,
                        channelCache, nextStamp>>
    /\ UNCHANGED <<ALLOWED_USER_ID, claudeUp, incarnation>>

\* ------------------------------------------------------- wait_for_message
\* args?.channel_type || 'tars'
ChannelTypeArg(arg) == IF arg = Undefined THEN "tars" ELSE arg

NewCall(channelType, timeoutSeconds, result, suspends) ==
    [ channelType    |-> channelType,
      timeoutSeconds |-> timeoutSeconds,
      result         |-> result,
      \* "none": never created; "pending"; "resolved"
      messagePromise |-> IF suspends THEN "pending" ELSE "none",
      timeoutPromise |-> IF suspends /\ timeoutSeconds > 0 THEN "pending" ELSE "none",
      \* setTimeout(..., timeoutSeconds * 1000): "none", "armed", "fired"
      timer          |-> IF suspends /\ timeoutSeconds > 0 THEN "armed" ELSE "none",
      remaining      |-> IF suspends /\ timeoutSeconds > 0 THEN timeoutSeconds ELSE 0,
      \* history of the request
      incarnation    |-> incarnation,
      replaced       |-> IF suspends THEN waitingResolvers[channelType] ELSE NoCall,
      deliveredAtCall |-> Len(delivered[channelType]) ]

\* Variant: pop() instead of shift(), the newest queued message is returned.
ReturnQueued_Pop(channelType, timeoutSeconds) ==
    LET q == messageQueues[channelType] IN
    /\ messageQueues' = [messageQueues EXCEPT ![channelType] = SubSeq(q, 1, Len(q) - 1)]
    /\ calls' = Append(calls, NewCall(channelType, timeoutSeconds, q[Len(q)], FALSE))
    /\ returned' = [returned EXCEPT ![channelType] = Append(@, q[Len(q)])]
    /\ UNCHANGED waitingResolvers

\* Variant: the head is read ([0]) but not shifted off the queue.
ReturnQueued_Peek(channelType, timeoutSeconds) ==
    /\ calls' = Append(calls, NewCall(channelType, timeoutSeconds,
                                      Head(messageQueues[channelType]), FALSE))
    /\ returned' = [returned EXCEPT
                      ![channelType] = Append(@, Head(messageQueues[channelType]))]
    /\ UNCHANGED <<messageQueues, waitingResolvers>>

\* if (messageQueues[channelType].length > 0) { shift; return }
ReturnQueued(channelType, timeoutSeconds) ==
    /\ messageQueues' = [messageQueues EXCEPT ![channelType] = Tail(@)]
    /\ calls' = Append(calls, NewCall(channelType, timeoutSeconds,
                                      Head(messageQueues[channelType]), FALSE))
    /\ returned' = [returned EXCEPT
                      ![channelType] = Append(@, Head(messageQueues[channelType]))]
    /\ UNCHANGED waitingResolvers

\* waitingResolvers[channelType] = resolve; setTimeout when timeoutSeconds > 0
RegisterWaiter(channelType, timeoutSeconds) ==
    /\ waitingResolvers' = [waitingResolvers EXCEPT ![channelType] = Len(calls) + 1]
    /\ calls' = Append(calls, NewCall(channelType, timeoutSeconds, Pending, TRUE))
    /\ UNCHANGED <<messageQueues, returned>>

\* Variant: the resolver and the timer are set up before the queue is looked at.
wait_for_message_RegisterFirst(channel_type, timeout_seconds) ==
    /\ claudeUp
    /\ Len(calls) < MaxCalls
    /\ LET k == ChannelTypeArg(channel_type) IN
       IF Len(messageQueues[k]) > 0
       THEN /\ messageQueues' = [messageQueues EXCEPT ![k] = Tail(@)]
            /\ waitingResolvers' = [waitingResolvers EXCEPT ![k] = Len(calls) + 1]
            /\ calls' = Append(calls,
                    [NewCall(k, timeout_seconds, Head(messageQueues[k]), TRUE)
                        EXCEPT !.messagePromise = "resolved"])
            /\ returned' = [returned EXCEPT ![k] = Append(@, Head(messageQueues[k]))]
       ELSE RegisterWaiter(k, timeout_seconds)
    /\ UNCHANGED <<ALLOWED_USER_ID, channelCache, claudeUp, incarnation, nextStamp,
                   delivered>>

wait_for_message(channel_type, timeout_seconds) ==
    /\ claudeUp
    /\ Len(calls) < MaxCalls
    /\ IF Len(messageQueues[ChannelTypeArg(channel_type)]) > 0
       THEN ReturnQueued(ChannelTypeArg(channel_type), timeout_seconds)
       ELSE RegisterWaiter(ChannelTypeArg(channel_type), timeout_seconds)
    /\ UNCHANGED <<ALLOWED_USER_ID, channelCache, claudeUp, incarnation, nextStamp,
                   delivered>>

\* ------------------------------------------------------------ the timers
\* The setTimeout callback of call c, with the continuation of c's race:
\* if (waitingResolvers[channelType]) { waitingResolvers[channelType] = null;
\* resolve(null) }
TimeoutCallback(c) ==
    IF waitingResolvers[calls[c].channelType] # NoCall
    THEN /\ waitingResolvers' =
                [waitingResolvers EXCEPT ![calls[c].channelType] = NoCall]
         /\ calls' = [calls EXCEPT
                ![c].timer = "fired",
                ![c].timeoutPromise = "resolved",
                ![c].result = IF calls[c].result = Pending
                              THEN TimeoutSignal(calls[c].channelType) ELSE @]
    ELSE /\ calls' = [calls EXCEPT ![c].timer = "fired"]
         /\ UNCHANGED waitingResolvers

TimerExpire(c) ==
    /\ calls[c].timer = "armed"
    /\ calls[c].remaining = 0
    \* timers of equal delay run in the order they were started
    /\ ~\E b \in 1..(c - 1) : /\ calls[b].timer = "armed"
                              /\ calls[b].remaining = 0
                              /\ calls[b].timeoutSeconds = calls[c].timeoutSeconds
    /\ TimeoutCallback(c)
    /\ UNCHANGED <<ALLOWED_USER_ID, messageQueues, channelCache, claudeUp, incarnation,
                   nextStamp, delivered, returned>>

\* One second passes: no armed timer is due, every armed timer comes one
\* second closer.
Tick ==
    /\ \E c \in CallIds : calls[c].timer = "armed"
    /\ \A c \in CallIds : calls[c].timer = "armed" => calls[c].remaining > 0
    /\ calls' = [c \in CallIds |->
                    IF calls[c].timer = "armed"
                    THEN [calls[c] EXCEPT !.remaining = @ - 1]
                    ELSE calls[c]]
    /\ UNCHANGED <<ALLOWED_USER_ID, messageQueues, waitingResolvers, channelCache,
                   claudeUp, incarnation, nextStamp, delivered, returned>>

\* ------------------------------------------------------ the Claude child
\* claudeProcess.on('close'): the child is gone; the gateway keeps its state.
ClaudeClose ==
    /\ claudeUp
    /\ claudeUp' = FALSE
    /\ UNCHANGED <<ALLOWED_USER_ID, messageQueues, waitingResolvers, channelCache,
                   calls, incarnation, nextStamp, delivered, returned>>

\* setTimeout(spawnClaude, 5000): the next incarnation of the child.
spawnClaude ==
    /\ ~claudeUp
    /\ incarnation < MaxRestarts
    /\ claudeUp' = TRUE
    /\ incarnation' = incarnation + 1
    /\ UNCHANGED <<ALLOWED_USER_ID, messageQueues, waitingResolvers, channelCache,
                   calls, nextStamp, delivered, returned>>

\* ============================================ the daemon: state shapes
Supervisors  == {11, 12}   \* process.pid of the supervisors that start
EXTERNAL_PID == 10         \* a supervisor that runs throughout, not modelled further
DEAD_PID     == 99         \* the pid of a process that has died
Null         == 0          \* null: no instance number yet, no child pid
HOSTNAME     == "host"     \* os.hostname()
SlotNumbers  == 1..MaxSlots

\* A file name wired-instance-N.json that does not exist.
NoFile  == [absent |-> TRUE]
\* A state file that cannot be read or whose content is not JSON.
Corrupt == [corrupt |-> TRUE]

\* The object saveInstanceState writes (channel ids and instanceName left out).
StateRecord(n, pid, claudePid, romillyPid, startTime) ==
    [instanceNumber |-> n, pid |-> pid, claudePid |-> claudePid,
     romillyPid |-> romillyPid, startTime |-> startTime, hostname |-> HOSTNAME]

\* A state file that parses but carries no pid.
PidlessRecord(n) ==
    [instanceNumber |-> n, claudePid |-> Null, romillyPid |-> Null,
     startTime |-> 0, hostname |-> HOSTNAME]

\* What an earlier run can have left under the name of instance n.
LeftoverKinds == {"none", "corrupt", "pidless", "dead", "live"}
Leftover(n, kind) ==
    CASE kind = "none"    -> NoFile
      [] kind = "corrupt" -> Corrupt
      [] kind = "pidless" -> PidlessRecord(n)
      [] kind = "dead"    -> StateRecord(n, DEAD_PID, Null, Null, 0)
      [] kind = "live"    -> StateRecord(n, EXTERNAL_PID, Null, Null, 0)

\* claudeProcess / romillyProcess before the first spawn.
NullProcess == [null |-> TRUE]
ChildProcess(pid) == [pid |-> pid, running |-> TRUE]
ChildKinds == {"claude", "romilly"}

\* The pid the operating system gives the k-th spawn of a child of supervisor s.
ChildPid(s, kind, k) == 100 * s + (IF kind = "claude" THEN 0 ELSE 50) + k

\* claudeProcess?.pid || null
PidOf(proc) == IF proc = NullProcess THEN Null ELSE proc.pid

Running(proc) == proc # NullProcess /\ proc.running

\* A supervisor process exists from its start until process.exit.
Alive(s) == pc[s] \notin {"off", "exited"}

\* ----------------------------------------------------------- daemon Init
DaemonInit ==
    /\ \E kinds \in [SlotNumbers -> LeftoverKinds] :
          /\ Cardinality({n \in SlotNumbers : kinds[n] # "none"}) <= MaxLeftovers
          /\ Cardinality({n \in SlotNumbers : kinds[n] = "live"}) <= 1
          /\ stateFiles = [n \in SlotNumbers |-> Leftover(n, kinds[n])]
    /\ pc = [s \in Supervisors |-> "off"]
    /\ instanceNumber = [s \in Supervisors |-> Null]
    /\ shuttingDown = [s \in Supervisors |-> FALSE]
    /\ claudeProcess = [s \in Supervisors |-> NullProcess]
    /\ romillyProcess = [s \in Supervisors |-> NullProcess]
    /\ spawnCount = [s \in Supervisors |-> [k \in ChildKinds |-> 0]]
    /\ claudeTimers = [s \in Supervisors |-> <<>>]
    /\ romillyTimers = [s \in Supervisors |-> <<>>]
    /\ startTimers = [s \in Supervisors |-> <<>>]
    /\ sessionActive = [s \in Supervisors |-> FALSE]
    /\ now = 0
    /\ purged = [s \in Supervisors |-> [n \in SlotNumbers |-> NoFile]]
    /\ injections = <<>>
    /\ stdinWrites = {}

\* No daemon in the picture: an empty directory and no supervisor started.
DaemonOff ==
    /\ DaemonInit
    /\ stateFiles = [n \in SlotNumbers |-> NoFile]

\* ===================================== shutdown, overwatcher, tools: state
\* The daemon's shutdown and exit.
VARIABLES
    envOk,            \* supervisor -> the required environment variables are set
    exitCode,         \* supervisor -> the code of process.exit, or NoExit
    signalsSeen,      \* supervisor -> SIGTERM / SIGINT received so far
    shutdownCalls,    \* history: supervisor -> calls of shutdown()
    childSignals,     \* supervisor -> signals sent to the current child handles
    killTimer,        \* supervisor -> the 1 s timer of shutdown
    teardown          \* supervisor -> the deletion of the Discord channels

shvars == <<envOk, exitCode, signalsSeen, shutdownCalls, childSignals, killTimer,
            teardown>>

\* The overwatcher (ROMILLY) process of a supervisor.
VARIABLES
    romillyMain,      \* supervisor -> where main of its ROMILLY child stands
    chatUp,           \* the chat platform answers
    directives        \* history: the corrections decided and what became of them

rvars == <<romillyMain, chatUp, directives>>

\* The gateway's startup and its other tools.
VARIABLES
    DISCORD_TOKEN,    \* CONFIG.DISCORD_TOKEN, or Unset
    gatewayPc,        \* where main of the gateway stands
    gatewayExit,      \* the code of process.exit of the gateway, or NoExit
    readyHandler,     \* the 'ready' handler: "idle", "fetching", "done"
    isReady,          \* the isReady flag
    sends,            \* the send_reply requests so far
    outbox,           \* history: channel type -> chunks the chat platform received
    lastStatus        \* the answer to the latest get_status

tvars == <<DISCORD_TOKEN, gatewayPc, gatewayExit, readyHandler, isReady, sends,
           outbox, lastStatus>>

xvars == <<shvars, rvars, tvars>>

NoExit == -1

NoStatus == [none |-> TRUE]

\* No signal has arrived and no process has exited.
NoShutdown ==
    /\ exitCode = [s \in Supervisors |-> NoExit]
    /\ signalsSeen = [s \in Supervisors |-> <<>>]
    /\ shutdownCalls = [s \in Supervisors |-> 0]
    /\ childSignals = [s \in Supervisors |-> [k \in ChildKinds |-> <<>>]]
    /\ killTimer = [s \in Supervisors |-> "none"]
    /\ teardown = [s \in Supervisors |-> "none"]

\* The daemon runs with its environment set and is not told to stop.
ShutdownOff == envOk = [s \in Supervisors |-> TRUE] /\ NoShutdown

\* The overwatcher is not looked into.
OverwatcherOff ==
    /\ romillyMain = [s \in Supervisors |-> "none"]
    /\ chatUp = TRUE
    /\ directives = <<>>

\* The gateway is connected and serves wait_for_message only.
ToolsOff ==
    /\ DISCORD_TOKEN = "token"
    /\ gatewayPc = "serving"
    /\ gatewayExit = NoExit
    /\ readyHandler = "done"
    /\ isReady = TRUE
    /\ sends = <<>>
    /\ outbox = [k \in ChannelTypes |-> <<>>]
    /\ lastStatus = NoStatus

ExtrasOff == ShutdownOff /\ OverwatcherOff /\ ToolsOff

\* ------------------------------------------------------------------ Next
\* The gateway is one process; the daemon's state is not touched by its steps.
Next ==
    \/ UNCHANGED xvars /\ UNCHANGED dvars /\ \E msg \in DiscordEvents : messageCreate(msg)
    \/ UNCHANGED xvars /\ UNCHANGED dvars /\ \E k \in ChannelTypes \cup {Undefined}, t \in 0..MaxTimeout :
           wait_for_message(k, t)
    \/ UNCHANGED xvars /\ UNCHANGED dvars /\ \E c \in CallIds : TimerExpire(c)
    \/ UNCHANGED xvars /\ UNCHANGED dvars /\ Tick
    \/ UNCHANGED xvars /\ UNCHANGED dvars /\ ClaudeClose
    \/ UNCHANGED xvars /\ UNCHANGED dvars /\ spawnClaude

\* The gateway serving one incarnation of the child.
NextGateway ==
    \/ UNCHANGED xvars /\ UNCHANGED dvars /\ \E msg \in DiscordEvents : messageCreate(msg)
    \/ UNCHANGED xvars /\ UNCHANGED dvars /\ \E k \in ChannelTypes \cup {Undefined}, t \in 0..MaxTimeout :
           wait_for_message(k, t)
    \/ UNCHANGED xvars /\ UNCHANGED dvars /\ \E c \in CallIds : TimerExpire(c)
    \/ UNCHANGED xvars /\ UNCHANGED dvars /\ Tick

\* The gateway starts; no daemon state is in the picture.
InitGateway == Init /\ DaemonOff /\ ExtrasOff

Spec == InitGateway /\ [][NextGateway]_vars

\* The gateway staying up across exits and respawns of the child.
SpecRestart == InitGateway /\ [][Next]_vars

\* ---------------------------------------------------------- vocabulary
Last(q) == q[Len(q)]

\* The call the step creates, when the step is a wait_for_message request.
IsWaitStep == Len(calls') = Len(calls) + 1
NewCallOfStep == calls'[Len(calls')]

\* The step accepts a Discord message for channel type k.
IsDeliverStep(k) == delivered'[k] # delivered[k]

\* Call c stored its resolver and a later call stored its own over it.
Replaced(c) == \E d \in CallIds : calls[d].replaced = c

\* Call c returned at once with a queued message / was handed a message
\* while it was suspended.
ReturnedFromQueue(c) == calls[c].messagePromise = "none" /\ IsMessage(calls[c].result)
HandedMessage(c) == calls[c].messagePromise = "resolved" /\ IsMessage(calls[c].result)

\* Number of places that hold the message stamped s.
InQueues(s) ==
    Cardinality({p \in ChannelTypes \X (1..MaxMsgs) :
                    /\ p[2] <= Len(messageQueues[p[1]])
                    /\ messageQueues[p[1]][p[2]].timestamp = s})
InResults(s) ==
    Cardinality({c \in CallIds : IsMessage(calls[c].result)
                                 /\ calls[c].result.timestamp = s})

\* ------------------------------------------------------------------- C1
\* C1: for each channel type, the messages answered by wait_for_message so
\* far, followed by the messages still queued, are exactly the messages
\* delivered to that channel type, in delivery order: FIFO, nothing lost,
\* nothing duplicated, nothing reordered.
C1_Fifo ==
    \A k \in ChannelTypes : returned[k] \o messageQueues[k] = delivered[k]

\* Three messages were queued with no waiter, two requests returned the first
\* two in order and the third is still queued.
C1_Witness ==
    \E k \in ChannelTypes :
        /\ Len(delivered[k]) = 3
        /\ Len(calls) = 2
        /\ \A c \in CallIds : calls[c].channelType = k /\ ReturnedFromQueue(c)
        /\ calls[1].result = delivered[k][1]
        /\ calls[2].result = delivered[k][2]
        /\ messageQueues[k] = <<delivered[k][3]>>

\* ------------------------------------------------------------------- C2
\* C2: when the timer of a request with timeout_seconds > 0 runs out and no
\* message was delivered to its channel type since the request was made, the
\* request returns the timeout signal and the waiter slot is unset.  Stated
\* for the requests of a consumer that waits one request at a time (the
\* request stored its resolver in an empty slot and no later request stored
\* one over it), where the claim already fails.
C2_TimeoutResolves ==
    [][\A c \in CallIds :
          ( /\ calls[c].timeoutSeconds > 0
            /\ calls[c].timer = "armed"
            /\ calls'[c].timer = "fired"
            /\ calls[c].replaced = NoCall
            /\ ~Replaced(c)
            /\ Len(delivered[calls[c].channelType]) = calls[c].deliveredAtCall )
          => /\ calls'[c].result = TimeoutSignal(calls[c].channelType)
             /\ waitingResolvers'[calls[c].channelType] = NoCall]_vars

\* ------------------------------------------------------------------- C3
\* C3: a request with a timeout is resolved by exactly one of delivery and
\* expiry.  When delivery acted first, the expiry of the request's timer
\* changes nothing: no queue, no waiter slot, no call's answer.  When expiry
\* acted first the request returned the timeout signal, keeps it, and a
\* message delivered while no waiter is registered is appended to the queue.
C3_RaceOneWinner ==
    [][/\ \A c \in CallIds :
            ( /\ calls[c].timer = "armed"
              /\ calls'[c].timer = "fired"
              /\ HandedMessage(c) )
            => /\ UNCHANGED <<messageQueues, waitingResolvers>>
               /\ \A d \in CallIds : calls'[d].result = calls[d].result
       /\ \A c \in CallIds :
            ( /\ calls[c].timer = "armed"
              /\ calls'[c].timer = "fired"
              /\ waitingResolvers[calls[c].channelType] = c )
            => /\ calls'[c].result = TimeoutSignal(calls[c].channelType)
               /\ waitingResolvers'[calls[c].channelType] = NoCall
       /\ \A k \in ChannelTypes :
            ( /\ IsDeliverStep(k)
              /\ waitingResolvers[k] = NoCall )
            => /\ messageQueues'[k] = Append(messageQueues[k], Last(delivered'[k]))
               /\ \A d \in CallIds : calls'[d].result = calls[d].result]_vars

\* ------------------------------------------------------------------- C4
\* C4: every suspended request is the one its channel type's waiter slot
\* references, so at most one request per channel type is outstanding.
C4_OneOutstandingWait ==
    \A c \in CallIds : Suspended(c) => waitingResolvers[calls[c].channelType] = c

C6_PendingOnlyWithoutWaiter ==
    \A k \in ChannelTypes :
        Len(messageQueues[k]) > 0 => waitingResolvers[k] = NoCall

\* A waiter was registered and timed out, and a message was queued after it.
C6_Witness ==
    \E c \in CallIds :
        /\ calls[c].result = TimeoutSignal(calls[c].channelType)
        /\ Len(messageQueues[calls[c].channelType]) > 0

\* ------------------------------------------------------------------- C7
\* C7: every accepted message is held in exactly one place: one position of
\* one queue, or the answer of one request (never both, never twice).
C7_ConsumedExactlyOnce ==
    \A s \in 1..(nextStamp - 1) : InQueues(s) + InResults(s) = 1

\* One message was handed to a waiter, another was queued and later returned
\* by a request, and the queues are empty again.
C7_Witness ==
    /\ \E c, d \in CallIds : HandedMessage(c) /\ ReturnedFromQueue(d)
    /\ \A k \in ChannelTypes : messageQueues[k] = <<>>

\* ------------------------------------------------------------------- C8
\* C8: a message that arrives while the child is down is appended to the
\* queue of its channel type, and a request of the respawned child on a
\* channel type with queued messages returns the oldest of them.
C8_QueuedWhileChildDown ==
    [][/\ \A k \in ChannelTypes :
            (IsDeliverStep(k) /\ ~claudeUp)
            => messageQueues'[k] = Append(messageQueues[k], Last(delivered'[k]))
       /\ \A k \in ChannelTypes :
            ( /\ IsWaitStep
              /\ NewCallOfStep.channelType = k
              /\ Len(messageQueues[k]) > 0 )
            => NewCallOfStep.result = Head(messageQueues[k])]_vars

\* ------------------------------------------------------------------- C9
\* C9: a request on a channel type with queued messages returns in the same
\* step with the oldest queued message, shortens the queue by exactly one,
\* registers no waiter and starts no timer.
C9_ImmediateReturn ==
    [][\A k \in ChannelTypes :
          ( /\ IsWaitStep
            /\ NewCallOfStep.channelType = k
            /\ Len(messageQueues[k]) > 0 )
          => /\ NewCallOfStep.result = Head(messageQueues[k])
             /\ messageQueues'[k] = Tail(messageQueues[k])
             /\ Len(messageQueues'[k]) = Len(messageQueues[k]) - 1
             /\ waitingResolvers' = waitingResolvers
             /\ NewCallOfStep.timer = "none"
             /\ NewCallOfStep.messagePromise = "none"
             /\ \A c \in CallIds : calls'[c] = calls[c]]_vars

\* A request that carried a timeout returned a queued message at once, with
\* no timer started, while another message stayed queued.
C9_Witness ==
    \E c \in CallIds :
        /\ ReturnedFromQueue(c)
        /\ calls[c].timeoutSeconds > 0
        /\ calls[c].timer = "none"
        /\ Len(messageQueues[calls[c].channelType]) > 0

IsRunning(pid) == pid = EXTERNAL_PID \/ (pid \in Supervisors /\ Alive(pid))

\* The file ends in one of the two catch blocks of cleanupOrphanedStateFiles:
\* JSON.parse or readFileSync throws (outer), or process.kill throws (inner),
\* which it does for a dead pid and for a pid that is not there.
\* A scan whose outer try has no catch that deletes: only parsed files go.
Orphaned_ParsedOnly(file) ==
    /\ file # Corrupt
    /\ ("pid" \notin DOMAIN file \/ ~IsRunning(file.pid))

Orphaned(file) ==
    \/ file = Corrupt
    \/ "pid" \notin DOMAIN file
    \/ ~IsRunning(file.pid)

\* A scan that deletes nothing.
cleanupOrphanedStateFiles_Keep(files) == files

cleanupOrphanedStateFiles(files) ==
    [n \in SlotNumbers |->
        IF files[n] # NoFile /\ Orphaned(files[n]) THEN NoFile ELSE files[n]]

\* let n = 1; while (activeSlots.has(n)) n++;
RECURSIVE NextFree(_, _)
NextFree(files, n) ==
    IF n \in SlotNumbers /\ files[n] # NoFile THEN NextFree(files, n + 1) ELSE n

AvailableInstance(files) == NextFree(cleanupOrphanedStateFiles(files), 1)

\* saveInstanceState() of supervisor s, run at the given time.
saveInstanceState(files, s, claudePid, romillyPid, time) ==
    LET n == instanceNumber[s] IN
    IF n \in SlotNumbers
    THEN [files EXCEPT ![n] = StateRecord(n, s, claudePid, romillyPid, time)]
    ELSE files

\* A release that unlinks nothing.
cleanupInstanceState_Keep(files, n) == files

\* cleanupInstanceState(): unlink if the file exists; an error is caught and logged.
cleanupInstanceState(files, n) ==
    IF n \in SlotNumbers /\ files[n] # NoFile
    THEN [files EXCEPT ![n] = NoFile]
    ELSE files

\* ---------------------------------------------------- the daemon: main
\* main up to its first await: validateEnv passed, initDiscord is connecting.
main(s) ==
    /\ pc[s] = "off"
    /\ pc' = [pc EXCEPT ![s] = "connecting"]
    /\ UNCHANGED <<stateFiles, instanceNumber, shuttingDown, claudeProcess,
                   romillyProcess, spawnCount, claudeTimers, romillyTimers,
                   startTimers, sessionActive, now, purged, injections, stdinWrites>>
    /\ UNCHANGED vars

\* initDiscord resolved; findAvailableInstance runs (it has no await of its
\* own) and main goes on to await createInstanceChannels.
findAvailableInstance(s) ==
    /\ pc[s] = "connecting"
    /\ AvailableInstance(stateFiles) \in SlotNumbers
    /\ stateFiles' = cleanupOrphanedStateFiles(stateFiles)
    /\ instanceNumber' = [instanceNumber EXCEPT ![s] = AvailableInstance(stateFiles)]
    /\ purged' = [purged EXCEPT ![s] =
                    [n \in SlotNumbers |->
                        IF stateFiles'[n] = NoFile THEN stateFiles[n] ELSE NoFile]]
    /\ pc' = [pc EXCEPT ![s] = "channels"]
    /\ UNCHANGED <<shuttingDown, claudeProcess, romillyProcess, spawnCount,
                   claudeTimers, romillyTimers, startTimers, sessionActive, now,
                   injections, stdinWrites>>
    /\ UNCHANGED vars

\* createInstanceChannels resolved: the channel ids are stored, the state
\* file is written, and main awaits the ONLINE message.
createInstanceChannels(s) ==
    /\ pc[s] = "channels"
    /\ stateFiles' = saveInstanceState(stateFiles, s, PidOf(claudeProcess[s]),
                                       PidOf(romillyProcess[s]), now)
    /\ pc' = [pc EXCEPT ![s] = "announcing"]
    /\ UNCHANGED <<instanceNumber, shuttingDown, claudeProcess, romillyProcess,
                   spawnCount, claudeTimers, romillyTimers, startTimers,
                   sessionActive, now, purged, injections, stdinWrites>>
    /\ UNCHANGED vars

\* The body of spawnClaude run at the given time: spawn, saveInstanceState,
\* and the 2 s timer that starts the loop.  (The close handler is claudeOnClose.)
spawnClaudeChild(s, time) ==
    LET pid == ChildPid(s, "claude", spawnCount[s].claude + 1) IN
    /\ claudeProcess' = [claudeProcess EXCEPT ![s] = ChildProcess(pid)]
    /\ spawnCount' = [spawnCount EXCEPT ![s].claude = @ + 1]
    /\ stateFiles' = saveInstanceState(stateFiles, s, pid, PidOf(romillyProcess[s]), time)
    /\ startTimers' = [startTimers EXCEPT ![s] = Append(@, time)]

\* The ONLINE message was sent: listeners, status updates and the HTTP server
\* are started, spawnClaude() is called and spawnRomilly is set for 10 s later.
startChildren(s) ==
    /\ pc[s] = "announcing"
    /\ pc' = [pc EXCEPT ![s] = "online"]
    /\ spawnClaudeChild(s, now)
    /\ romillyTimers' = [romillyTimers EXCEPT ![s] = Append(@, now)]
    /\ UNCHANGED <<instanceNumber, shuttingDown, romillyProcess, claudeTimers,
                   sessionActive, now, purged, injections, stdinWrites>>
    /\ UNCHANGED vars

\* main().catch: one of the awaits of main rejected; process.exit(1).
mainCatch(s) ==
    /\ pc[s] \in {"connecting", "channels", "announcing"}
    /\ pc' = [pc EXCEPT ![s] = "exited"]
    /\ UNCHANGED <<stateFiles, instanceNumber, shuttingDown, claudeProcess,
                   romillyProcess, spawnCount, claudeTimers, romillyTimers,
                   startTimers, sessionActive, now, purged, injections, stdinWrites>>
    /\ UNCHANGED vars

\* ----------------------------------------------- the daemon: children
\* A timer set at setAt runs its callback only after its delay (2 s, 5 s or
\* 10 s): the clock has then moved past the moment the timer was set.
TimeOfFiring(setAt) == IF now > setAt THEN now ELSE setAt + 1

\* A close handler that gives up after the first restart.
claudeOnClose_Capped(s) ==
    /\ Alive(s)
    /\ Running(claudeProcess[s])
    /\ spawnCount[s].claude < MaxSpawns
    /\ claudeProcess' = [claudeProcess EXCEPT ![s].running = FALSE]
    /\ sessionActive' = [sessionActive EXCEPT ![s] = FALSE]
    /\ claudeTimers' = [claudeTimers EXCEPT ![s] =
                            IF spawnCount[s].claude < 2 THEN Append(@, now) ELSE @]
    /\ UNCHANGED <<stateFiles, pc, instanceNumber, shuttingDown, romillyProcess,
                   spawnCount, romillyTimers, startTimers, now, purged,
                   injections, stdinWrites>>
    /\ UNCHANGED vars

\* claudeProcess.on('close'): sessionActive = false; setTimeout(spawnClaude, 5000).
\* The handler runs for every exit code and does not look at earlier restarts.
claudeOnClose(s) ==
    /\ Alive(s)
    /\ Running(claudeProcess[s])
    /\ spawnCount[s].claude < MaxSpawns
    /\ claudeProcess' = [claudeProcess EXCEPT ![s].running = FALSE]
    /\ sessionActive' = [sessionActive EXCEPT ![s] = FALSE]
    /\ claudeTimers' = [claudeTimers EXCEPT ![s] = Append(@, now)]
    /\ UNCHANGED <<stateFiles, pc, instanceNumber, shuttingDown, romillyProcess,
                   spawnCount, romillyTimers, startTimers, now, purged,
                   injections, stdinWrites>>
    /\ UNCHANGED vars

\* The timer of the close handler fires: spawnClaude().
restartClaude(s) ==
    /\ Alive(s)
    /\ claudeTimers[s] # <<>>
    /\ now' = TimeOfFiring(Head(claudeTimers[s]))
    /\ claudeTimers' = [claudeTimers EXCEPT ![s] = Tail(@)]
    /\ spawnClaudeChild(s, now')
    /\ UNCHANGED <<pc, instanceNumber, shuttingDown, romillyProcess, romillyTimers,
                   sessionActive, purged, injections, stdinWrites>>
    /\ UNCHANGED vars

\* (variant: the exit handler sets two restart timers)
romillyOnExit_Twice(s) ==
    /\ Alive(s)
    /\ Running(romillyProcess[s])
    /\ spawnCount[s].romilly < MaxSpawns
    /\ romillyProcess' = [romillyProcess EXCEPT ![s].running = FALSE]
    /\ romillyTimers' = [romillyTimers EXCEPT ![s] = Append(Append(@, now), now)]
    /\ UNCHANGED <<stateFiles, pc, instanceNumber, shuttingDown, claudeProcess,
                   spawnCount, claudeTimers, startTimers, sessionActive, now,
                   purged, injections, stdinWrites>>
    /\ UNCHANGED vars

\* romillyProcess.on('exit'): setTimeout(spawnRomilly, 5000).
romillyOnExit(s) ==
    /\ Alive(s)
    /\ Running(romillyProcess[s])
    /\ spawnCount[s].romilly < MaxSpawns
    /\ romillyProcess' = [romillyProcess EXCEPT ![s].running = FALSE]
    /\ romillyTimers' = [romillyTimers EXCEPT ![s] = Append(@, now)]
    /\ UNCHANGED <<stateFiles, pc, instanceNumber, shuttingDown, claudeProcess,
                   spawnCount, claudeTimers, startTimers, sessionActive, now,
                   purged, injections, stdinWrites>>
    /\ UNCHANGED vars

\* A spawnRomilly timer fires (the one of main or one of the exit handler):
\* fork, then saveInstanceState().
spawnRomilly(s) ==
    LET pid == ChildPid(s, "romilly", spawnCount[s].romilly + 1) IN
    /\ Alive(s)
    /\ romillyTimers[s] # <<>>
    /\ now' = TimeOfFiring(Head(romillyTimers[s]))
    /\ romillyTimers' = [romillyTimers EXCEPT ![s] = Tail(@)]
    /\ romillyProcess' = [romillyProcess EXCEPT ![s] = ChildProcess(pid)]
    /\ spawnCount' = [spawnCount EXCEPT ![s].romilly = @ + 1]
    /\ stateFiles' = saveInstanceState(stateFiles, s, PidOf(claudeProcess[s]), pid, now')
    /\ UNCHANGED <<pc, instanceNumber, shuttingDown, claudeProcess, claudeTimers,
                   startTimers, sessionActive, purged, injections, stdinWrites>>
    /\ UNCHANGED vars

\* ----------------------------------------------- the daemon: shutdown
\* SIGTERM or SIGINT, first time: shutdown() up to its first await.  The
\* children are sent SIGTERM (their exit is claudeOnClose / romillyOnExit)
\* and the state file is removed.
shutdown(s) ==
    /\ Alive(s)
    /\ ~shuttingDown[s]
    /\ shuttingDown' = [shuttingDown EXCEPT ![s] = TRUE]
    /\ stateFiles' = cleanupInstanceState(stateFiles, instanceNumber[s])
    /\ UNCHANGED <<pc, instanceNumber, claudeProcess, romillyProcess, spawnCount,
                   claudeTimers, romillyTimers, startTimers, sessionActive, now,
                   purged, injections, stdinWrites>>
    /\ UNCHANGED vars

\* The channels are deleted (or the deletion failed and was logged):
\* discordClient.destroy(); process.exit(0).
shutdownExit(s) ==
    /\ Alive(s)
    /\ shuttingDown[s]
    /\ pc' = [pc EXCEPT ![s] = "exited"]
    /\ UNCHANGED <<stateFiles, instanceNumber, shuttingDown, claudeProcess,
                   romillyProcess, spawnCount, claudeTimers, romillyTimers,
                   startTimers, sessionActive, now, purged, injections, stdinWrites>>
    /\ UNCHANGED vars

\* Supervisors starting and stopping on one directory of state files; their
\* children stay up.
NextRegistry ==
    \/ UNCHANGED xvars /\ \E s \in Supervisors : main(s)
    \/ UNCHANGED xvars /\ \E s \in Supervisors : findAvailableInstance(s)
    \/ UNCHANGED xvars /\ \E s \in Supervisors : createInstanceChannels(s)
    \/ UNCHANGED xvars /\ \E s \in Supervisors : startChildren(s)
    \/ UNCHANGED xvars /\ \E s \in Supervisors : mainCatch(s)
    \/ UNCHANGED xvars /\ \E s \in Supervisors : shutdown(s)
    \/ UNCHANGED xvars /\ \E s \in Supervisors : shutdownExit(s)

\* No gateway in the picture.
GatewayOff == Init /\ ALLOWED_USER_ID = COOPER

InitRegistry == DaemonInit /\ GatewayOff /\ ExtrasOff

SpecRegistry == InitRegistry /\ [][NextRegistry]_dvars

\* ---------------------------------------------- the daemon: injection
\* The text of a line: who it is attributed to and which request it carries.
Line(source, content) == [source |-> source, content |-> content]
\* 'Start the Discord message loop now.'
StartLine == Line("", 0)

\* claudeProcess?.stdin?.writable
Writable(s) == Running(claudeProcess[s])

\* A sendToClaudeStdin that writes without looking at the stream.
sendToClaudeStdin_Always(s, text) ==
    stdinWrites \cup {[pid |-> PidOf(claudeProcess[s]), text |-> text]}

\* The lines written so far once sendToClaudeStdin(text) has run in
\* supervisor s; its return value is Writable(s).
sendToClaudeStdin(s, text) ==
    IF Writable(s)
    THEN stdinWrites \cup {[pid |-> claudeProcess[s].pid, text |-> text]}
    ELSE stdinWrites

\* The 2 s timer of spawnClaude fires.
startLoop(s) ==
    /\ Alive(s)
    /\ startTimers[s] # <<>>
    /\ now' = TimeOfFiring(Head(startTimers[s]))
    /\ startTimers' = [startTimers EXCEPT ![s] = Tail(@)]
    /\ stdinWrites' = sendToClaudeStdin(s, StartLine)
    /\ sessionActive' = [sessionActive EXCEPT ![s] = TRUE]
    /\ UNCHANGED <<stateFiles, pc, instanceNumber, shuttingDown, claudeProcess,
                   romillyProcess, spawnCount, claudeTimers, romillyTimers,
                   purged, injections>>
    /\ UNCHANGED vars

\* What a caller gets back.
NoReply == [none |-> TRUE]
\* (variant: the answer says success whatever sendToClaudeStdin returned)
HttpReply_AlwaysOk(status, success, source, instance) ==
    [status |-> status, success |-> TRUE, source |-> source, instance |-> instance]

\* res.end(JSON.stringify({ success: injected, source, instance: instanceNumber }))
HttpReply(status, success, source, instance) ==
    [status |-> status, success |-> success, source |-> source, instance |-> instance]
BadRequest == [status |-> 400]

\* The bodies a POST /inject can carry: not JSON, or JSON with or without
\* source and content.
HttpBodies == [json : BOOLEAN, source : {Undefined, "LAIN"}, content : BOOLEAN]

\* One request as the history keeps it: its number, how far it got, what
\* sendToClaudeStdin returned and what the caller received.
Injection(caller, attempted, injected, reply) ==
    [id |-> Len(injections) + 1, caller |-> caller, attempted |-> attempted,
     injected |-> injected, reply |-> reply]

\* POST /inject on the HTTP server of supervisor s.
httpInject(s, body) ==
    LET source  == IF body.source = Undefined THEN "COOPER" ELSE body.source
        id      == Len(injections) + 1
        attempt == body.json /\ body.content
    IN
    /\ pc[s] = "online"
    /\ Len(injections) < MaxInjects
    /\ stdinWrites' = IF attempt THEN sendToClaudeStdin(s, Line(source, id))
                      ELSE stdinWrites
    /\ injections' = Append(injections,
            Injection("http", attempt, attempt /\ Writable(s),
                      IF attempt
                      THEN HttpReply(200, Writable(s), source, instanceNumber[s])
                      ELSE BadRequest) @@ [body |-> body])
    /\ UNCHANGED <<stateFiles, pc, instanceNumber, shuttingDown, claudeProcess,
                   romillyProcess, spawnCount, claudeTimers, romillyTimers,
                   startTimers, sessionActive, now, purged>>
    /\ UNCHANGED vars

\* The messages the ROMILLY child can send over IPC.
IpcMessages == [type : {"inject", "other"}, content : BOOLEAN]

\* romillyProcess.on('message'): the 'inject' message of sendToTars.  The
\* handler drops the value sendToClaudeStdin returns and sends nothing back.
ipcInject(s, msg) ==
    LET id      == Len(injections) + 1
        attempt == msg.type = "inject" /\ msg.content
    IN
    /\ Alive(s)
    /\ Running(romillyProcess[s])
    /\ Len(injections) < MaxInjects
    /\ stdinWrites' = IF attempt THEN sendToClaudeStdin(s, Line("ROMILLY", id))
                      ELSE stdinWrites
    /\ injections' = Append(injections,
            Injection("ipc", attempt, attempt /\ Writable(s), NoReply))
    /\ UNCHANGED <<stateFiles, pc, instanceNumber, shuttingDown, claudeProcess,
                   romillyProcess, spawnCount, claudeTimers, romillyTimers,
                   startTimers, sessionActive, now, purged>>
    /\ UNCHANGED vars

\* One supervisor and its two children.
SUPERVISOR == 11

NextSupervisor ==
    \/ UNCHANGED xvars /\ main(SUPERVISOR)
    \/ UNCHANGED xvars /\ findAvailableInstance(SUPERVISOR)
    \/ UNCHANGED xvars /\ createInstanceChannels(SUPERVISOR)
    \/ UNCHANGED xvars /\ startChildren(SUPERVISOR)
    \/ UNCHANGED xvars /\ mainCatch(SUPERVISOR)
    \/ UNCHANGED xvars /\ claudeOnClose(SUPERVISOR)
    \/ UNCHANGED xvars /\ restartClaude(SUPERVISOR)
    \/ UNCHANGED xvars /\ romillyOnExit(SUPERVISOR)
    \/ UNCHANGED xvars /\ spawnRomilly(SUPERVISOR)
    \/ UNCHANGED xvars /\ startLoop(SUPERVISOR)

\* The supervisor starts on an empty directory.
InitSupervisor == DaemonOff /\ GatewayOff /\ ExtrasOff

SpecSupervisor == InitSupervisor /\ [][NextSupervisor]_dvars

\* Node runs the callback of every timer that is due.
SpecSupervisorFair ==
    /\ SpecSupervisor
    /\ WF_dvars(UNCHANGED xvars /\ restartClaude(SUPERVISOR))
    /\ WF_dvars(UNCHANGED xvars /\ spawnRomilly(SUPERVISOR))
    /\ WF_dvars(UNCHANGED xvars /\ startLoop(SUPERVISOR))

\* One supervisor, the exits and respawns of its Claude child, and the
\* requests to inject text that arrive over HTTP and from the ROMILLY child.
NextInject ==
    \/ UNCHANGED xvars /\ main(SUPERVISOR)
    \/ UNCHANGED xvars /\ findAvailableInstance(SUPERVISOR)
    \/ UNCHANGED xvars /\ createInstanceChannels(SUPERVISOR)
    \/ UNCHANGED xvars /\ startChildren(SUPERVISOR)
    \/ UNCHANGED xvars /\ claudeOnClose(SUPERVISOR)
    \/ UNCHANGED xvars /\ restartClaude(SUPERVISOR)
    \/ UNCHANGED xvars /\ spawnRomilly(SUPERVISOR)
    \/ UNCHANGED xvars /\ startLoop(SUPERVISOR)
    \/ UNCHANGED xvars /\ \E body \in HttpBodies : httpInject(SUPERVISOR, body)
    \/ UNCHANGED xvars /\ \E msg \in IpcMessages : ipcInject(SUPERVISOR, msg)

SpecInject == InitSupervisor /\ [][NextInject]_dvars

\* ================================================ claims on the registry
\* The step in which supervisor s runs its startup scan and picks its number.
IsScanStep(s) == pc[s] = "connecting" /\ pc'[s] = "channels"

\* The file is a record whose owner pid is a process that exists.
HasLiveOwner(file) ==
    /\ file # NoFile
    /\ file # Corrupt
    /\ "pid" \in DOMAIN file
    /\ \/ file.pid = EXTERNAL_PID
       \/ file.pid \in Supervisors /\ Alive(file.pid)

LiveSlots == {n \in SlotNumbers : HasLiveOwner(stateFiles[n])}

\* C11: the startup scan picks the lowest positive integer that is not the
\* number of a record whose owner is alive; records of dead owners are deleted
\* before the choice, so their numbers can be picked, and after the scan every
\* record that remains is an unchanged record of a live owner.
C11_LowestFreeSlot ==
    [][\A s \in Supervisors : IsScanStep(s) =>
          /\ instanceNumber'[s] >= 1
          /\ instanceNumber'[s] \notin LiveSlots
          /\ \A m \in 1..(instanceNumber'[s] - 1) : m \in LiveSlots
          /\ \A n \in SlotNumbers :
                stateFiles'[n] = IF n \in LiveSlots THEN stateFiles[n] ELSE NoFile]_dvars

\* Numbers 1 and 3 were taken, the owner of 1 dead and the owner of 3 alive:
\* the scan deleted the record of 1 and picked 1.
C11_Witness ==
    \E s \in Supervisors :
        /\ pc[s] = "channels"
        /\ instanceNumber[s] = 1
        /\ purged[s][1] = StateRecord(1, DEAD_PID, Null, Null, 0)
        /\ stateFiles[2] = NoFile
        /\ stateFiles[3] = StateRecord(3, EXTERNAL_PID, Null, Null, 0)

\* C12: when the scan of a supervisor returns its number, the record of that
\* number is already in the store under the supervisor's pid, so a supervisor
\* that scans after another one's scan returned, the other still alive,
\* gets a different number (1 and then 2 on an empty store).
C12_PersistedOnReturn ==
    [][\A s \in Supervisors : IsScanStep(s) =>
          /\ HasLiveOwner(stateFiles'[instanceNumber'[s]])
          /\ stateFiles'[instanceNumber'[s]].pid = s
          /\ \A t \in Supervisors \ {s} :
                Alive(t) /\ instanceNumber[t] # Null =>
                    instanceNumber'[s] # instanceNumber[t]]_dvars

\* C13: supervisors that are alive at the same time never run with the same
\* instance number, whatever the interleaving of their startup steps.
C13_DistinctSlots ==
    \A s, t \in Supervisors :
        (s # t /\ Alive(s) /\ Alive(t)
              /\ instanceNumber[s] # Null /\ instanceNumber[t] # Null)
            => instanceNumber[s] # instanceNumber[t]

\* Supervisor s has written its record and has not released it: main is past
\* its saveInstanceState and shutdown has not run.
ClaimsSlot(s) == pc[s] \in {"announcing", "online"} /\ ~shuttingDown[s]

\* Some state file is a record under the pid of supervisor s.
HasRecord(s) ==
    \E n \in SlotNumbers :
        /\ stateFiles[n] # NoFile
        /\ stateFiles[n] # Corrupt
        /\ "pid" \in DOMAIN stateFiles[n]
        /\ stateFiles[n].pid = s

\* C14: in every reachable state a record of a supervisor is in the store if
\* and only if that supervisor is alive and claims its slot.
C14_RecordIffAlive ==
    \A s \in Supervisors : HasRecord(s) <=> (Alive(s) /\ ClaimsSlot(s))

\* A file the scan has to delete: unreadable or not JSON, without a pid, or
\* with the pid of a process that is gone.
IsBadRecord(file) == file # NoFile /\ ~HasLiveOwner(file)

\* C15: a record that cannot be read or parsed, or whose owner pid is missing
\* or not alive, never keeps the startup scan from running; the scan deletes
\* it, goes on to pick a number, and the number of the deleted record is among
\* those it can pick (the number picked is not above it).
C15_BadRecordsPurged ==
    /\ [](\A s \in Supervisors :
            pc[s] = "connecting" => ENABLED findAvailableInstance(s))
    /\ [][\A s \in Supervisors : IsScanStep(s) =>
            \A n \in SlotNumbers : IsBadRecord(stateFiles[n]) =>
                /\ stateFiles'[n] = NoFile
                /\ instanceNumber'[s] <= n
                /\ instanceNumber'[s] \in SlotNumbers]_dvars

\* A scan met an unparseable file and a record without a pid, deleted both
\* and picked number 1.
C15_Witness ==
    \E s \in Supervisors : \E n, m \in SlotNumbers :
        /\ pc[s] = "channels"
        /\ purged[s][n] = Corrupt
        /\ purged[s][m] = PidlessRecord(m)
        /\ instanceNumber[s] = 1

\* The step in which supervisor s runs shutdown up to its release of the slot.
IsReleaseStep(s) == ~shuttingDown[s] /\ shuttingDown'[s]

\* C16: releasing a slot never fails and leaves no record of the slot, whether
\* or not there was one, and releasing it again changes nothing: shutdown goes
\* on after the release, and no other record is touched.
C16_ReleaseIdempotent ==
    /\ [](\A n \in SlotNumbers \cup {Null} :
            LET once == cleanupInstanceState(stateFiles, n) IN
            /\ cleanupInstanceState(once, n) = once
            /\ n \in SlotNumbers => once[n] = NoFile
            /\ \A m \in SlotNumbers \ {n} : once[m] = stateFiles[m])
    /\ [][\A s \in Supervisors : IsReleaseStep(s) =>
            /\ pc'[s] = pc[s]
            /\ stateFiles' = cleanupInstanceState(stateFiles, instanceNumber[s])
            /\ instanceNumber[s] # Null => stateFiles'[instanceNumber[s]] = NoFile]_dvars

\* Two supervisors held the same number and both released it: the first
\* release removed the record, the second found none.
C16_Witness ==
    \E s, t \in Supervisors :
        /\ s # t
        /\ shuttingDown[s] /\ shuttingDown[t]
        /\ pc[s] = "online" /\ pc[t] = "online"
        /\ instanceNumber[s] = instanceNumber[t]
        /\ stateFiles[instanceNumber[s]] = NoFile

\* ============================================== claims on the children
\* The step in which supervisor s spawns one of its children.
IsSpawnStep(s) == spawnCount'[s] # spawnCount[s]

\* The state file of supervisor s.
OwnRecord(s) == stateFiles[instanceNumber[s]]

\* C17: every spawn or respawn of a child rewrites the record of the
\* supervisor with the pids of the children it has now, and leaves the
\* number, the owner pid, the creation time and the host name as they were.
C17_UpdateKeepsIdentity ==
    [][\A s \in Supervisors : IsSpawnStep(s) /\ HasRecord(s) =>
          /\ OwnRecord(s)'.claudePid = PidOf(claudeProcess'[s])
          /\ OwnRecord(s)'.romillyPid = PidOf(romillyProcess'[s])
          /\ OwnRecord(s)'.instanceNumber = OwnRecord(s).instanceNumber
          /\ OwnRecord(s)'.pid = OwnRecord(s).pid
          /\ OwnRecord(s)'.startTime = OwnRecord(s).startTime
          /\ OwnRecord(s)'.hostname = OwnRecord(s).hostname]_dvars

\* The child was spawned and has exited.
Exited(proc) == proc # NullProcess /\ ~proc.running

\* C18: for the Claude child and for the ROMILLY child, each exit leaves
\* exactly one restart pending, whatever the number of earlier restarts; a
\* child is spawned only by main or by a pending restart, one spawn for one
\* restart and later than the exit; and every child that has exited runs
\* again.
C18_ExitThenOneSpawn ==
    /\ [](\A s \in Supervisors :
            /\ Len(claudeTimers[s]) = IF Exited(claudeProcess[s]) THEN 1 ELSE 0
            /\ Len(romillyTimers[s]) =
                  IF Exited(romillyProcess[s])
                        \/ (pc[s] = "online" /\ romillyProcess[s] = NullProcess)
                  THEN 1 ELSE 0)
    /\ [][\A s \in Supervisors :
            /\ spawnCount'[s].claude # spawnCount[s].claude =>
                  /\ spawnCount'[s].claude = spawnCount[s].claude + 1
                  /\ \/ pc[s] = "announcing"
                     \/ /\ Len(claudeTimers'[s]) = Len(claudeTimers[s]) - 1
                        /\ now' > Head(claudeTimers[s])
            /\ spawnCount'[s].romilly # spawnCount[s].romilly =>
                  /\ spawnCount'[s].romilly = spawnCount[s].romilly + 1
                  /\ Len(romillyTimers'[s]) = Len(romillyTimers[s]) - 1
                  /\ now' > Head(romillyTimers[s])]_dvars
    /\ Exited(claudeProcess[SUPERVISOR]) ~> Running(claudeProcess[SUPERVISOR])
    /\ Exited(romillyProcess[SUPERVISOR]) ~> Running(romillyProcess[SUPERVISOR])

\* Both children have exited twice and run for the third time.
C18_Witness ==
    /\ spawnCount[SUPERVISOR].claude = 3
    /\ spawnCount[SUPERVISOR].romilly = 3
    /\ Running(claudeProcess[SUPERVISOR])
    /\ Running(romillyProcess[SUPERVISOR])

\* The requests that reached sendToClaudeStdin and were refused.
Rejected == {k \in 1..Len(injections) :
                injections[k].attempted /\ ~injections[k].injected}

\* C19: a request made while the stdin of the Claude child is not writable
\* gets false and writes nothing, and its text is never written afterwards,
\* to this or to a later incarnation of the child.
C19_DroppedWhenNotWritable ==
    /\ [](\A k \in Rejected : \A w \in stdinWrites : w.text.content # k)
    /\ [][\A s \in Supervisors :
            (Len(injections') > Len(injections) /\ ~Writable(s)
                  /\ (pc[s] = "online"))
              => /\ stdinWrites' = stdinWrites
                 /\ ~Last(injections').injected]_dvars

\* A request was refused while the first incarnation was down, and the
\* second incarnation has since been written to.
C19_Witness ==
    /\ Rejected # {}
    /\ \E w \in stdinWrites :
          /\ w.pid = ChildPid(SUPERVISOR, "claude", 2)
          /\ w.text.content > 0
          /\ \E k \in Rejected : k < w.text.content

\* C20: the caller of a request that was refused is told so as a boolean
\* failure, the HTTP caller and the ROMILLY child alike.
C20_CallerToldOfRejection ==
    \A k \in Rejected :
        /\ "success" \in DOMAIN injections[k].reply
        /\ injections[k].reply.success = FALSE


\* ======================================================================
\* The daemon: signals, shutdown and exit (src/core/daemon.js:526-594)
\* ======================================================================
Signals == {"SIGTERM", "SIGINT"}

\* tarsChannelId and romillyChannelId are set once createInstanceChannels
\* has returned; before that shutdown finds no channel to delete and runs to
\* process.exit(0) without an await.
HasChannels(s) == pc[s] \in {"announcing", "online"}

\* subprocess.kill(sig): the signal reaches a child that has not exited, and
\* from then on the handle's .killed is true.
kill(proc, sent, sig) ==
    IF proc # NullProcess /\ Running(proc) THEN Append(sent, sig) ELSE sent

Killed(sent) == sent # <<>>

ChildHandle(s, kind) == IF kind = "claude" THEN claudeProcess[s] ELSE romillyProcess[s]

\* if (shuttingDown) return;  (variant: the handlers without the flag)
AlreadyShuttingDown_Never(s) == FALSE

AlreadyShuttingDown(s) == shuttingDown[s]

\* process.on('SIGTERM' | 'SIGINT'): the first signal sets shuttingDown and
\* runs shutdown() up to its first await: SIGTERM to both children, the 1 s
\* timer, cleanupInstanceState(), then the deletion of the channels (when
\* there are none: destroy and process.exit(0) at once).
onSignal(s, sig) ==
    /\ Alive(s)
    /\ Len(signalsSeen[s]) < MaxSignals
    /\ signalsSeen' = [signalsSeen EXCEPT ![s] = Append(@, sig)]
    /\ IF AlreadyShuttingDown(s)
       THEN UNCHANGED <<stateFiles, pc, shuttingDown, exitCode, shutdownCalls,
                        childSignals, killTimer, teardown>>
       ELSE /\ shuttingDown' = [shuttingDown EXCEPT ![s] = TRUE]
            /\ shutdownCalls' = [shutdownCalls EXCEPT ![s] = @ + 1]
            /\ childSignals' = [childSignals EXCEPT ![s] =
                   [k \in ChildKinds |-> kill(ChildHandle(s, k), @[k], "SIGTERM")]]
            /\ killTimer' = [killTimer EXCEPT ![s] = "armed"]
            /\ stateFiles' = cleanupInstanceState(stateFiles, instanceNumber[s])
            /\ IF HasChannels(s)
               THEN /\ teardown' = [teardown EXCEPT ![s] = "pending"]
                    /\ UNCHANGED <<pc, exitCode>>
               ELSE /\ teardown' = [teardown EXCEPT ![s] = "done"]
                    /\ pc' = [pc EXCEPT ![s] = "exited"]
                    /\ exitCode' = [exitCode EXCEPT ![s] = 0]
    /\ UNCHANGED <<instanceNumber, claudeProcess, romillyProcess, spawnCount,
                   claudeTimers, romillyTimers, startTimers, sessionActive, now,
                   purged, injections, stdinWrites>>
    /\ UNCHANGED <<envOk, rvars, tvars, vars>>

\* The 1 s timer of shutdown: SIGKILL to each child handle whose .killed is
\* still false.  The timer dies with the process.
killTimerFires(s) ==
    /\ Alive(s)
    /\ killTimer[s] = "armed"
    /\ killTimer' = [killTimer EXCEPT ![s] = "fired"]
    /\ childSignals' = [childSignals EXCEPT ![s] =
           [k \in ChildKinds |->
               IF ChildHandle(s, k) # NullProcess /\ ~Killed(@[k])
               THEN kill(ChildHandle(s, k), @[k], "SIGKILL")
               ELSE @[k]]]
    /\ UNCHANGED <<envOk, exitCode, signalsSeen, shutdownCalls, teardown>>
    /\ UNCHANGED <<dvars, rvars, tvars, vars>>

\* process.exit(code) from shutdown.
exitFromShutdown(s, outcome, code) ==
    /\ Alive(s)
    /\ teardown[s] = "pending"
    /\ teardown' = [teardown EXCEPT ![s] = outcome]
    /\ pc' = [pc EXCEPT ![s] = "exited"]
    /\ exitCode' = [exitCode EXCEPT ![s] = code]
    /\ UNCHANGED <<stateFiles, instanceNumber, shuttingDown, claudeProcess,
                   romillyProcess, spawnCount, claudeTimers, romillyTimers,
                   startTimers, sessionActive, now, purged, injections,
                   stdinWrites>>
    /\ UNCHANGED <<envOk, signalsSeen, shutdownCalls, childSignals, killTimer>>
    /\ UNCHANGED <<rvars, tvars, vars>>

\* The deletions are done: discordClient.destroy(); process.exit(0).
teardownCompletes(s) == exitFromShutdown(s, "done", 0)

\* (variant: the failure of a deletion leaves shutdown and reaches the
\* handler's .catch, which exits with 1)
teardownFails_Propagates(s) == exitFromShutdown(s, "failed", 1)

\* A deletion throws: the catch logs it; destroy; process.exit(0).
teardownFails(s) == exitFromShutdown(s, "failed", 0)

\* A deletion never settles: shutdown stays at that await.
teardownHangs(s) ==
    /\ Alive(s)
    /\ teardown[s] = "pending"
    /\ teardown' = [teardown EXCEPT ![s] = "hung"]
    /\ UNCHANGED <<envOk, exitCode, signalsSeen, shutdownCalls, childSignals,
                   killTimer>>
    /\ UNCHANGED <<dvars, rvars, tvars, vars>>

\* A new child handle: its .killed is false.
NewHandle(s, kind) ==
    /\ childSignals' = [childSignals EXCEPT ![s][kind] = <<>>]
    /\ UNCHANGED <<envOk, exitCode, signalsSeen, shutdownCalls, killTimer, teardown>>

\* main().catch: process.exit(1).
fatalExit(s) ==
    /\ mainCatch(s)
    /\ exitCode' = [exitCode EXCEPT ![s] = 1]
    /\ UNCHANGED <<envOk, signalsSeen, shutdownCalls, childSignals, killTimer,
                   teardown>>

\* One supervisor, its children and the signals it receives.
NextShutdown ==
    \/ UNCHANGED xvars /\ main(SUPERVISOR)
    \/ UNCHANGED xvars /\ findAvailableInstance(SUPERVISOR)
    \/ UNCHANGED xvars /\ createInstanceChannels(SUPERVISOR)
    \/ UNCHANGED <<rvars, tvars>> /\ NewHandle(SUPERVISOR, "claude") /\ startChildren(SUPERVISOR)
    \/ UNCHANGED <<rvars, tvars>> /\ fatalExit(SUPERVISOR)
    \/ UNCHANGED xvars /\ claudeOnClose(SUPERVISOR)
    \/ UNCHANGED <<rvars, tvars>> /\ NewHandle(SUPERVISOR, "claude") /\ restartClaude(SUPERVISOR)
    \/ UNCHANGED xvars /\ romillyOnExit(SUPERVISOR)
    \/ UNCHANGED <<rvars, tvars>> /\ NewHandle(SUPERVISOR, "romilly") /\ spawnRomilly(SUPERVISOR)
    \/ \E sig \in Signals : onSignal(SUPERVISOR, sig)
    \/ killTimerFires(SUPERVISOR)
    \/ teardownCompletes(SUPERVISOR)
    \/ teardownFails(SUPERVISOR)
    \/ teardownHangs(SUPERVISOR)

avars == <<vars, dvars, xvars>>

InitShutdown == InitSupervisor

SpecShutdown == InitShutdown /\ [][NextShutdown]_avars


\* ---------------------------------------------------------------- C21 - C24
IsSignalStep(s)    == signalsSeen'[s] # signalsSeen[s]
IsShutdownStart(s) == ~shuttingDown[s] /\ shuttingDown'[s]
IsGraceExpiry(s)   == killTimer[s] = "armed" /\ killTimer'[s] = "fired"
IsTeardownFailure(s) == teardown[s] = "pending" /\ teardown'[s] = "failed"

\* C21: whatever termination signals (SIGTERM, SIGINT) a supervisor receives
\* and in whatever order, the shutdown sequence is started at most once: a
\* signal that arrives while the supervisor is shutting down changes nothing
\* but the count of signals received.
C21_ShutdownStartedOnce ==
    /\ [](\A s \in Supervisors : shutdownCalls[s] <= 1)
    /\ [][\A s \in Supervisors :
            IsSignalStep(s) /\ shuttingDown[s] =>
                UNCHANGED <<dvars, exitCode, shutdownCalls, childSignals,
                            killTimer, teardown>>]_avars

\* Two different signals were received during one shutdown.
C21_Witness ==
    /\ Len(signalsSeen[SUPERVISOR]) = 2
    /\ signalsSeen[SUPERVISOR][1] # signalsSeen[SUPERVISOR][2]
    /\ shutdownCalls[SUPERVISOR] = 1
    /\ teardown[SUPERVISOR] = "pending"

\* C22: when shutdown starts every running child is sent SIGTERM, and when
\* the grace window elapses every child that has not exited is sent SIGKILL.
C22_TermThenKill ==
    [][\A s \in Supervisors : \A k \in ChildKinds :
          /\ IsShutdownStart(s) /\ Running(ChildHandle(s, k)) =>
                childSignals'[s][k] = <<"SIGTERM">>
          /\ IsGraceExpiry(s) /\ Running(ChildHandle(s, k)) =>
                /\ childSignals'[s][k] # <<>>
                /\ childSignals'[s][k][Len(childSignals'[s][k])] = "SIGKILL"]_avars

\* C23: a supervisor that is shutting down and has not exited can always
\* take a step that ends the process, also when a call to the chat platform
\* never completes.
C23_ExitNotBlocked ==
    \A s \in Supervisors :
        shuttingDown[s] /\ Alive(s) => ENABLED (NextShutdown /\ pc'[s] = "exited")

\* C24: the slot record is released in the step that starts shutdown, before
\* any channel is deleted, and a deletion that fails ends the supervisor
\* with exit code 0.
C24_TeardownFailureContained ==
    [][\A s \in Supervisors :
          /\ IsShutdownStart(s) /\ instanceNumber[s] # Null =>
                stateFiles'[instanceNumber[s]] = NoFile
          /\ IsTeardownFailure(s) =>
                /\ shuttingDown[s]
                /\ pc'[s] = "exited"
                /\ exitCode'[s] = 0]_avars

\* A deletion failed after the supervisor had a record to release.
C24_Witness ==
    /\ teardown[SUPERVISOR] = "failed"
    /\ pc[SUPERVISOR] = "exited"
    /\ exitCode[SUPERVISOR] = 0
    /\ stateFiles[instanceNumber[SUPERVISOR]] = NoFile


\* ======================================================================
\* The gateway: startup, send_reply, get_status
\* (src/mcp/wired-gateway/index.js:60-87, 251-299, 337-355)
\* ======================================================================
CHUNK == 1900

\* Lengths of the message argument of send_reply.
TextLengths == {0, 1, CHUNK, CHUNK + 1, 2 * CHUNK, 5000}

\* A string is the run of its characters: positions lo..hi of the message.
Text(L) == [lo |-> 1, hi |-> L]

Length(t) == t.hi - t.lo + 1

Min(a, b) == IF a < b THEN a ELSE b

\* String.prototype.slice(begin, end) and slice(begin) with 0 <= begin <= end.
slice(t, begin, end) ==
    [lo |-> Min(t.lo + begin, t.hi + 1), hi |-> Min(t.lo + end - 1, t.hi)]

sliceFrom(t, begin) == [lo |-> Min(t.lo + begin, t.hi + 1), hi |-> t.hi]

\* (variant: only one chunk is cut and the rest of the message is dropped)
Chunks_FirstOnly(remaining) ==
    IF Length(remaining) > 0 THEN <<slice(remaining, 0, CHUNK)>> ELSE <<>>

\* while (remaining.length > 0) { chunks.push(remaining.slice(0, 1900));
\* remaining = remaining.slice(1900); }
RECURSIVE Chunks(_)
Chunks(remaining) ==
    IF Length(remaining) > 0
    THEN <<slice(remaining, 0, CHUNK)>> \o Chunks(sliceFrom(remaining, CHUNK))
    ELSE <<>>

\* The text results of send_reply.
NOT_CONNECTED == "Discord not connected yet."
NO_CHANNEL    == "No channel configured."
SENT          == "Sent to #channel"
SEND_ERROR    == "Error: message"

\* The request is at an await of targetChannel.send.
SENDING == "sending"

SendIds == 1..Len(sends)

\* main of the gateway up to its first await: the token check, then login.
gatewayMain ==
    /\ gatewayPc = "start"
    /\ IF DISCORD_TOKEN = Unset
       THEN gatewayPc' = "exited" /\ gatewayExit' = 1
       ELSE gatewayPc' = "login" /\ UNCHANGED gatewayExit
    /\ UNCHANGED <<DISCORD_TOKEN, readyHandler, isReady, sends, outbox, lastStatus>>
    /\ UNCHANGED <<vars, dvars, shvars, rvars>>

\* discord.login resolved; server.connect(transport): requests are served.
serverConnect ==
    /\ gatewayPc = "login"
    /\ gatewayPc' = "serving"
    /\ UNCHANGED <<DISCORD_TOKEN, gatewayExit, readyHandler, isReady, sends, outbox,
                   lastStatus>>
    /\ UNCHANGED <<vars, dvars, shvars, rvars>>

\* discord.login rejected: main().catch, process.exit(1).
loginFails ==
    /\ gatewayPc = "login"
    /\ readyHandler = "idle"
    /\ gatewayPc' = "exited"
    /\ gatewayExit' = 1
    /\ UNCHANGED <<DISCORD_TOKEN, readyHandler, isReady, sends, outbox, lastStatus>>
    /\ UNCHANGED <<vars, dvars, shvars, rvars>>

\* discord.on('ready'): the handler starts to fetch the configured channels.
onReady ==
    /\ gatewayPc \in {"login", "serving"}
    /\ readyHandler = "idle"
    /\ readyHandler' = "fetching"
    /\ UNCHANGED <<DISCORD_TOKEN, gatewayPc, gatewayExit, isReady, sends, outbox,
                   lastStatus>>
    /\ UNCHANGED <<vars, dvars, shvars, rvars>>

ChannelIdOf(k) == IF k = "tars" THEN TARS_CHANNEL_ID ELSE ROMILLY_CHANNEL_ID

\* The fetches are over (those of fetched succeeded, a failed one is logged):
\* isReady = true.
readyDone(fetched) ==
    /\ gatewayPc \in {"login", "serving"}
    /\ readyHandler = "fetching"
    /\ readyHandler' = "done"
    /\ isReady' = TRUE
    /\ channelCache' = [k \in ChannelTypes |->
                           IF k \in fetched THEN ChannelIdOf(k) ELSE channelCache[k]]
    /\ UNCHANGED <<ALLOWED_USER_ID, messageQueues, waitingResolvers, calls, claudeUp,
                   incarnation, nextStamp, delivered, returned>>
    /\ UNCHANGED <<DISCORD_TOKEN, gatewayPc, gatewayExit, sends, outbox, lastStatus>>
    /\ UNCHANGED <<dvars, shvars, rvars>>

NewSend(channelType, message, chunks, issued, result) ==
    [channelType |-> channelType, message |-> message, chunks |-> chunks,
     issued |-> issued, result |-> result]

\* (variant: the request is not checked against isReady and channelCache)
send_reply_Unchecked(channel_type, message) ==
    /\ gatewayPc = "serving"
    /\ Len(sends) < MaxSends
    /\ sends' = Append(sends,
          NewSend(ChannelTypeArg(channel_type), message, Chunks(message), 1, SENDING))
    /\ UNCHANGED <<DISCORD_TOKEN, gatewayPc, gatewayExit, readyHandler, isReady, outbox,
                   lastStatus>>
    /\ UNCHANGED <<vars, dvars, shvars, rvars>>

\* send_reply up to its first await: the two early returns, the chunking,
\* and targetChannel.send of the first chunk.
send_reply(channel_type, message) ==
    LET channelType == ChannelTypeArg(channel_type)
        chunks == Chunks(message)
    IN
    /\ gatewayPc = "serving"
    /\ Len(sends) < MaxSends
    /\ sends' = Append(sends,
          IF ~isReady THEN NewSend(channelType, message, <<>>, 0, NOT_CONNECTED)
          ELSE IF channelCache[channelType] = Unset
               THEN NewSend(channelType, message, <<>>, 0, NO_CHANNEL)
          ELSE IF chunks = <<>> THEN NewSend(channelType, message, chunks, 0, SENT)
          ELSE NewSend(channelType, message, chunks, 1, SENDING))
    /\ UNCHANGED <<DISCORD_TOKEN, gatewayPc, gatewayExit, readyHandler, isReady, outbox,
                   lastStatus>>
    /\ UNCHANGED <<vars, dvars, shvars, rvars>>

\* await targetChannel.send(chunk) resolved: the chat platform has the chunk;
\* the loop sends the next chunk, or the handler returns 'Sent to #...'.
sendResolves(i) ==
    LET snd == sends[i] IN
    /\ snd.result = SENDING
    /\ outbox' = [outbox EXCEPT ![snd.channelType] =
                     Append(@, [send |-> i, chunk |-> snd.chunks[snd.issued]])]
    /\ sends' = [sends EXCEPT ![i] =
                    IF snd.issued < Len(snd.chunks)
                    THEN [snd EXCEPT !.issued = @ + 1]
                    ELSE [snd EXCEPT !.result = SENT]]
    /\ UNCHANGED <<DISCORD_TOKEN, gatewayPc, gatewayExit, readyHandler, isReady,
                   lastStatus>>
    /\ UNCHANGED <<vars, dvars, shvars, rvars>>

\* (variant: after a rejected chunk the loop goes on with the next chunk)
sendRejects_Continues(i) ==
    /\ sends[i].result = SENDING
    /\ sends' = [sends EXCEPT ![i] =
                    IF @.issued < Len(@.chunks)
                    THEN [@ EXCEPT !.issued = @ + 1]
                    ELSE [@ EXCEPT !.result = SEND_ERROR]]
    /\ UNCHANGED <<DISCORD_TOKEN, gatewayPc, gatewayExit, readyHandler, isReady, outbox,
                   lastStatus>>
    /\ UNCHANGED <<vars, dvars, shvars, rvars>>

\* await targetChannel.send(chunk) rejected: catch, 'Error: ...'.
sendRejects(i) ==
    /\ sends[i].result = SENDING
    /\ sends' = [sends EXCEPT ![i].result = SEND_ERROR]
    /\ UNCHANGED <<DISCORD_TOKEN, gatewayPc, gatewayExit, readyHandler, isReady, outbox,
                   lastStatus>>
    /\ UNCHANGED <<vars, dvars, shvars, rvars>>

StatusReply ==
    [discord_connected |-> isReady,
     tars_channel      |-> channelCache["tars"],
     romilly_channel   |-> channelCache["romilly"],
     tars_queue        |-> Len(messageQueues["tars"]),
     romilly_queue     |-> Len(messageQueues["romilly"])]

\* (variant: the status request takes the head of each queue it counted)
get_status_Consuming ==
    /\ gatewayPc = "serving"
    /\ lastStatus' = StatusReply
    /\ messageQueues' = [k \in ChannelTypes |->
                            IF messageQueues[k] = <<>> THEN <<>> ELSE Tail(messageQueues[k])]
    /\ UNCHANGED <<ALLOWED_USER_ID, waitingResolvers, channelCache, calls, claudeUp,
                   incarnation, nextStamp, delivered, returned>>
    /\ UNCHANGED <<DISCORD_TOKEN, gatewayPc, gatewayExit, readyHandler, isReady, sends,
                   outbox>>
    /\ UNCHANGED <<dvars, shvars, rvars>>

\* get_status: the answer is built from isReady, channelCache and the
\* lengths of the two queues.
get_status ==
    /\ gatewayPc = "serving"
    /\ lastStatus' = StatusReply
    /\ UNCHANGED <<DISCORD_TOKEN, gatewayPc, gatewayExit, readyHandler, isReady, sends,
                   outbox>>
    /\ UNCHANGED <<vars, dvars, shvars, rvars>>

\* Events of the chat platform arrive once the client is ready; requests of
\* the child arrive once the server is connected.
eventArrives == readyHandler # "idle" /\ \E msg \in DiscordEvents : messageCreate(msg)

waitRequest ==
    gatewayPc = "serving" /\ \E k \in ChannelTypes \cup {Undefined} : wait_for_message(k, 0)

\* The gateway with send_reply requests of every length and no other traffic.
NextSend ==
    \/ gatewayMain
    \/ serverConnect
    \/ onReady
    \/ \E fetched \in SUBSET ChannelTypes : readyDone(fetched)
    \/ \E k \in ChannelTypes \cup {Undefined}, L \in TextLengths : send_reply(k, Text(L))
    \/ \E i \in SendIds : sendResolves(i)
    \/ \E i \in SendIds : sendRejects(i)

\* The gateway with messages, waiting requests and one-character sends.
NextTools ==
    \/ gatewayMain
    \/ serverConnect
    \/ onReady
    \/ \E fetched \in SUBSET ChannelTypes : readyDone(fetched)
    \/ UNCHANGED <<dvars, xvars>> /\ eventArrives
    \/ UNCHANGED <<dvars, xvars>> /\ waitRequest
    \/ \E k \in ChannelTypes \cup {Undefined} : send_reply(k, Text(1))
    \/ \E i \in SendIds : sendResolves(i)
    \/ \E i \in SendIds : sendRejects(i)

\* The gateway with messages, waiting requests and status requests.
NextStatus ==
    \/ gatewayMain
    \/ serverConnect
    \/ onReady
    \/ \E fetched \in SUBSET ChannelTypes : readyDone(fetched)
    \/ UNCHANGED <<dvars, xvars>> /\ eventArrives
    \/ UNCHANGED <<dvars, xvars>> /\ waitRequest
    \/ get_status

\* The gateway process at its start.
GatewayStart ==
    /\ gatewayPc = "start"
    /\ gatewayExit = NoExit
    /\ readyHandler = "idle"
    /\ isReady = FALSE
    /\ sends = <<>>
    /\ outbox = [k \in ChannelTypes |-> <<>>]
    /\ lastStatus = NoStatus

\* The gateway process at its start, with its token set.
ToolsInit == DISCORD_TOKEN = "token" /\ GatewayStart

InitTools == GatewayOff /\ DaemonOff /\ ShutdownOff /\ OverwatcherOff /\ ToolsInit

SpecTools == InitTools /\ [][NextTools]_avars

SpecSend == InitTools /\ [][NextSend]_avars

SpecStatus == InitTools /\ [][NextStatus]_avars


\* ----------------------------------------------------------- C27, C28, C30
\* ceil(L / CHUNK)
CeilDiv(L) == (L + CHUNK - 1) \div CHUNK

\* The chunks of send i the chat platform has received, in the order received.
Observed(i) ==
    LET box == outbox[sends[i].channelType]
        F[n \in 0..Len(box)] ==
            IF n = 0 THEN <<>>
            ELSE IF box[n].send = i THEN Append(F[n - 1], box[n].chunk) ELSE F[n - 1]
    IN F[Len(box)]

\* The runs cs, one after the other, are exactly the run t.
ConcatenationIs(cs, t) ==
    /\ cs = <<>> => Length(t) = 0
    /\ cs # <<>> => cs[1].lo = t.lo /\ cs[Len(cs)].hi = t.hi
    /\ \A n \in 1..Len(cs) : Length(cs[n]) >= 1
    /\ \A n \in 1..(Len(cs) - 1) : cs[n + 1].lo = cs[n].hi + 1

Bound(i) == isReady /\ channelCache[sends[i].channelType] # Unset

\* C27: a send of a text of length L that went through cut it into
\* ceil(L/1900) chunks of at most 1900 characters, the chat platform received
\* them in order and their concatenation is the text; while a send is under
\* way the platform has received a prefix of its chunks and at most one chunk
\* is in flight.
C27_ChunkedInOrder ==
    \A i \in SendIds :
        LET snd == sends[i]
            seen == Observed(i)
        IN
        /\ snd.result \in {SENT, SENDING, SEND_ERROR} =>
              /\ Len(snd.chunks) = CeilDiv(Length(snd.message))
              /\ \A n \in 1..Len(snd.chunks) : Length(snd.chunks[n]) <= CHUNK
              /\ Len(seen) <= Len(snd.chunks)
              /\ \A n \in 1..Len(seen) : seen[n] = snd.chunks[n]
              /\ Len(seen) <= snd.issued /\ snd.issued <= Len(seen) + 1
        /\ snd.result = SENT =>
              /\ Len(seen) = CeilDiv(Length(snd.message))
              /\ ConcatenationIs(seen, snd.message)
        /\ snd.result = SENT /\ Length(snd.message) = 5000 => Len(seen) = 3

\* A text of 5000 characters was sent in full.
C27_Witness ==
    \E i \in SendIds :
        /\ sends[i].result = SENT
        /\ Length(sends[i].message) = 5000
        /\ Len(Observed(i)) = 3

IsSendRequest == Len(sends') = Len(sends) + 1

\* C28: a send_reply on a kind whose channel is not bound, or before the
\* gateway is connected, answers with a text that says so, hands nothing to
\* the chat platform, and changes no queue, waiter or binding.
C28_UnboundSendRefused ==
    [][IsSendRequest /\ (~isReady \/ channelCache[sends'[Len(sends')].channelType] = Unset) =>
          /\ sends'[Len(sends')].result \in {NOT_CONNECTED, NO_CHANNEL}
          /\ sends'[Len(sends')].issued = 0
          /\ outbox' = outbox
          /\ UNCHANGED <<messageQueues, waitingResolvers, channelCache, calls, isReady>>]_avars

\* A send was refused while a message was queued on one kind and a request
\* was waiting on the other.
C28_Witness ==
    /\ \E i \in SendIds : sends[i].result = NO_CHANNEL
    /\ \E k \in ChannelTypes : messageQueues[k] # <<>>
    /\ \E k \in ChannelTypes : waitingResolvers[k] # NoCall

IsStatusRequest == lastStatus' # lastStatus

\* C30: get_status changes no queue, waiter, binding or connection flag, and
\* the depths it reports are the lengths of the two queues.
C30_StatusPureRead ==
    [][IsStatusRequest =>
          /\ UNCHANGED <<messageQueues, waitingResolvers, channelCache, calls,
                         isReady, gatewayPc, readyHandler>>
          /\ lastStatus'.tars_queue = Len(messageQueues'["tars"])
          /\ lastStatus'.romilly_queue = Len(messageQueues'["romilly"])]_avars

\* A status answer that reports a queue of two messages.
C30_Witness ==
    /\ lastStatus # NoStatus
    /\ lastStatus.tars_queue = 2
    /\ Len(messageQueues["tars"]) = 2
    /\ \E k \in ChannelTypes : waitingResolvers[k] # NoCall


\* ======================================================================
\* Startup with a missing configuration value
\* (src/core/daemon.js:597-653, src/mcp/wired-gateway/index.js:337-355)
\* ======================================================================
\* (variant: main does not call validateEnv)
validateEnv_Skipped(s) == TRUE

\* validateEnv(): no required variable is missing.
validateEnv(s) == envOk[s]

\* main of the daemon up to its first await: validateEnv() exits with 1, or
\* initDiscord() is called.
daemonMain(s) ==
    IF validateEnv(s)
    THEN main(s) /\ UNCHANGED shvars
    ELSE /\ pc[s] = "off"
         /\ pc' = [pc EXCEPT ![s] = "exited"]
         /\ exitCode' = [exitCode EXCEPT ![s] = 1]
         /\ UNCHANGED <<stateFiles, instanceNumber, shuttingDown, claudeProcess,
                        romillyProcess, spawnCount, claudeTimers, romillyTimers,
                        startTimers, sessionActive, now, purged, injections,
                        stdinWrites>>
         /\ UNCHANGED <<envOk, signalsSeen, shutdownCalls, childSignals, killTimer,
                        teardown>>
         /\ UNCHANGED vars

\* A supervisor and a gateway from their start, each with or without its
\* configuration.
NextStartup ==
    \/ UNCHANGED <<rvars, tvars>> /\ daemonMain(SUPERVISOR)
    \/ UNCHANGED xvars /\ findAvailableInstance(SUPERVISOR)
    \/ UNCHANGED xvars /\ createInstanceChannels(SUPERVISOR)
    \/ UNCHANGED <<rvars, tvars>> /\ NewHandle(SUPERVISOR, "claude") /\ startChildren(SUPERVISOR)
    \/ UNCHANGED <<rvars, tvars>> /\ fatalExit(SUPERVISOR)
    \/ UNCHANGED <<rvars, tvars>> /\ NewHandle(SUPERVISOR, "romilly") /\ spawnRomilly(SUPERVISOR)
    \/ gatewayMain
    \/ loginFails
    \/ serverConnect
    \/ onReady
    \/ \E fetched \in SUBSET ChannelTypes : readyDone(fetched)
    \/ UNCHANGED <<dvars, xvars>> /\ waitRequest
    \/ get_status

InitStartup ==
    /\ GatewayOff
    /\ DaemonOff
    /\ envOk \in [Supervisors -> BOOLEAN]
    /\ \A s \in Supervisors \ {SUPERVISOR} : envOk[s]
    /\ NoShutdown
    /\ OverwatcherOff
    /\ DISCORD_TOKEN \in {Unset, "token"}
    /\ GatewayStart

SpecStartup == InitStartup /\ [][NextStartup]_avars

\* C25: a supervisor that lacks a required environment variable never
\* connects, never takes or writes a slot record and never spawns a child,
\* and when it has stopped its exit code is 1; a gateway without a token
\* never logs in and never serves a request, and when it has stopped its
\* exit code is 1.  Both can stop as their first step.
C25_MissingConfigExits ==
    /\ \A s \in Supervisors :
          ~envOk[s] =>
             /\ pc[s] \in {"off", "exited"}
             /\ pc[s] = "off" => ENABLED (daemonMain(s) /\ exitCode'[s] = 1)
             /\ pc[s] = "exited" => exitCode[s] = 1
             /\ instanceNumber[s] = Null
             /\ ~HasRecord(s)
             /\ claudeProcess[s] = NullProcess /\ romillyProcess[s] = NullProcess
    /\ DISCORD_TOKEN = Unset =>
          /\ gatewayPc \in {"start", "exited"}
          /\ gatewayPc = "start" => ENABLED (gatewayMain /\ gatewayExit' = 1)
          /\ gatewayPc = "exited" => gatewayExit = 1
          /\ readyHandler = "idle"
          /\ calls = <<>> /\ sends = <<>> /\ lastStatus = NoStatus

\* Both have stopped for a missing value.
C25_Witness ==
    /\ ~envOk[SUPERVISOR] /\ pc[SUPERVISOR] = "exited" /\ exitCode[SUPERVISOR] = 1
    /\ DISCORD_TOKEN = Unset /\ gatewayPc = "exited" /\ gatewayExit = 1

\* ======================================================================
\* The overwatcher (src/mcp/wired-gateway/index.js:749-784, 1052-1165)
\* ======================================================================
\* main of ROMILLY starts with the fork: await initDiscord().
forkRomilly(s) ==
    /\ spawnRomilly(s)
    /\ romillyMain' = [romillyMain EXCEPT ![s] = "connecting"]
    /\ UNCHANGED <<chatUp, directives>>

\* 'ready' arrived and initDiscord resolved: the ONLINE message is sent (a
\* failure of that send is logged) and the checks are scheduled.
romillyReady(s) ==
    /\ romillyMain[s] = "connecting"
    /\ chatUp
    /\ romillyMain' = [romillyMain EXCEPT ![s] = "active"]
    /\ UNCHANGED <<chatUp, directives>>
    /\ UNCHANGED <<vars, dvars, shvars, tvars>>

\* discordClient.login rejected: initDiscord rejects, main().catch,
\* process.exit(1); the daemon's exit handler runs.
romillyMainCatch(s) ==
    /\ romillyMain[s] = "connecting"
    /\ ~chatUp
    /\ romillyMain' = [romillyMain EXCEPT ![s] = "exited"]
    /\ romillyOnExit(s)
    /\ UNCHANGED <<chatUp, directives>>

\* The chat platform goes down or comes back.
chatChanges ==
    /\ chatUp' = ~chatUp
    /\ UNCHANGED <<romillyMain, directives>>
    /\ UNCHANGED <<vars, dvars, shvars, tvars>>

\* The end of a check that decided on a correction: the report goes to the
\* ROMILLY channel (a rejected send is logged), then sendToTars does
\* process.send({type: 'inject', ...}), which the daemon handles.
fullAudit(s, report) ==
    /\ romillyMain[s] = "active"
    /\ Len(directives) < MaxAudits
    /\ report = IF chatUp THEN "sent" ELSE "failed"
    /\ directives' = Append(directives,
           [injection |-> Len(injections) + 1, report |-> report,
            writable |-> Writable(s)])
    /\ ipcInject(s, [type |-> "inject", content |-> TRUE])
    /\ UNCHANGED <<romillyMain, chatUp>>

\* One supervisor, its children, the overwatcher's checks and the chat
\* platform.
NextOverwatch ==
    \/ UNCHANGED xvars /\ main(SUPERVISOR)
    \/ UNCHANGED xvars /\ findAvailableInstance(SUPERVISOR)
    \/ UNCHANGED xvars /\ createInstanceChannels(SUPERVISOR)
    \/ UNCHANGED xvars /\ startChildren(SUPERVISOR)
    \/ UNCHANGED xvars /\ claudeOnClose(SUPERVISOR)
    \/ UNCHANGED xvars /\ restartClaude(SUPERVISOR)
    \/ UNCHANGED xvars /\ startLoop(SUPERVISOR)
    \/ UNCHANGED <<shvars, tvars>> /\ forkRomilly(SUPERVISOR)
    \/ romillyReady(SUPERVISOR)
    \/ UNCHANGED <<shvars, tvars>> /\ romillyMainCatch(SUPERVISOR)
    \/ chatChanges
    \/ UNCHANGED <<shvars, tvars>> /\ \E report \in {"sent", "failed"} : fullAudit(SUPERVISOR, report)

InitOverwatch == InitSupervisor

SpecOverwatch == InitOverwatch /\ [][NextOverwatch]_avars

\* C26: every correction the overwatcher decided on while the input of the
\* Claude child was writable has been written to that input, whether the
\* report to the chat platform went out or failed; and an overwatcher that
\* starts while the chat platform is unavailable can go on to its checks.
C26_DirectiveIndependentOfChat ==
    /\ \A n \in 1..Len(directives) :
          directives[n].writable =>
             \E w \in stdinWrites : w.text = Line("ROMILLY", directives[n].injection)
    /\ \A s \in Supervisors :
          romillyMain[s] = "connecting" /\ ~chatUp => ENABLED romillyReady(s)


\* ---------------------------------------------------------------------- C29
IsHttpInject ==
    /\ Len(injections') = Len(injections) + 1
    /\ injections'[Len(injections')].caller = "http"

SourceOf(body) == IF body.source = Undefined THEN "COOPER" ELSE body.source

\* The lines the step wrote to the input of the Claude child.
NewLines == stdinWrites' \ stdinWrites

\* The one line of request inj, attributed to the source of its body.
OneTaggedLine(inj) ==
    /\ Cardinality(NewLines) = 1
    /\ \A w \in NewLines :
          /\ w.pid = PidOf(claudeProcess[SUPERVISOR])
          /\ w.text = Line(SourceOf(inj.body), inj.id)

SuspendedOn(k) == {d \in CallIds : Suspended(d) /\ calls[d].channelType = k}

\* C32: while exactly one request is suspended on a channel type, a message
\* delivered to that type resolves that request and is not appended to the
\* queue; and the expiry of the timer of a request that a delivery already
\* resolved leaves every waiter slot as it is.
C32_StaleTimerHarmless ==
    [][/\ \A k \in ChannelTypes : \A d \in CallIds :
            (IsDeliverStep(k) /\ SuspendedOn(k) = {d})
            => /\ calls'[d].result = Last(delivered'[k])
               /\ messageQueues'[k] = messageQueues[k]
       /\ \A c \in CallIds :
            ( /\ calls[c].timer = "armed"
              /\ calls'[c].timer = "fired"
              /\ HandedMessage(c) )
            => waitingResolvers' = waitingResolvers]_vars

\* The gateway with messages, waiting requests and sends of three chunks.
NextSendTraffic ==
    \/ gatewayMain
    \/ serverConnect
    \/ onReady
    \/ \E fetched \in SUBSET ChannelTypes : readyDone(fetched)
    \/ UNCHANGED <<dvars, xvars>> /\ eventArrives
    \/ UNCHANGED <<dvars, xvars>> /\ waitRequest
    \/ \E k \in ChannelTypes \cup {Undefined} : send_reply(k, Text(5000))
    \/ \E i \in SendIds : sendResolves(i)
    \/ \E i \in SendIds : sendRejects(i)

SpecSendTraffic == InitTools /\ [][NextSendTraffic]_avars

IsSendFailure(i) == sends[i].result = SENDING /\ sends'[i].result = SEND_ERROR

\* The chunks before the one that was in flight when the send stopped.
DeliveredBefore(i) == SubSeq(sends[i].chunks, 1, sends[i].issued - 1)

\* C39: when the send of chunk k is rejected, the chunks 1..k-1 are what the
\* chat platform has of the request and stays so, the request answers with
\* the 'Error' text, and the gateway goes on serving with its queues, waiters
\* and bindings as they were.
C39_FailedChunkStopsSend ==
    /\ [](\A i \in SendIds :
            sends[i].result = SEND_ERROR => Observed(i) = DeliveredBefore(i))
    /\ [][\A i \in SendIds :
            IsSendFailure(i) =>
               /\ outbox' = outbox
               /\ Observed(i) = DeliveredBefore(i)
               /\ gatewayPc' = "serving"
               /\ UNCHANGED <<messageQueues, waitingResolvers, calls, channelCache,
                              isReady>>]_avars

\* The second of three chunks was rejected while a message was queued and a
\* request was waiting.
C39_Witness ==
    /\ \E i \in SendIds :
          /\ sends[i].result = SEND_ERROR
          /\ Len(sends[i].chunks) = 3
          /\ sends[i].issued = 2
          /\ Len(Observed(i)) = 1
    /\ \E k \in ChannelTypes : messageQueues[k] # <<>>
    /\ \E k \in ChannelTypes : waitingResolvers[k] # NoCall

\* The three early returns of the messageCreate handler, as the claim lists
\* them.
NotForGateway(msg) ==
    \/ msg.bot
    \/ (ALLOWED_USER_ID # Unset /\ msg.authorId # ALLOWED_USER_ID)
    \/ msg.channelId \notin {TARS_CHANNEL_ID, ROMILLY_CHANNEL_ID}

KindOf(msg) == IF msg.channelId = TARS_CHANNEL_ID THEN "tars" ELSE "romilly"

\* messageCreate(msg) can change the queue, the waiter or the binding of kind k.
CanTouch(msg, k) ==
    ENABLED (messageCreate(msg) /\ \/ messageQueues'[k] # messageQueues[k]
                                   \/ waitingResolvers'[k] # waitingResolvers[k]
                                   \/ channelCache'[k] # channelCache[k])

\* The claim as stated: an accepted event leaves every binding as it is.
C40_OnlyQueueAndWaiter ==
    \A msg \in DiscordEvents :
        ~ENABLED (messageCreate(msg) /\ channelCache' # channelCache)

\* C40: an event from a bot, from a user other than the allowed one when one
\* is configured, or on a channel that is neither of the two, changes no
\* queue, waiter or binding; any other event changes only the queue, the
\* waiter and the binding of the kind of its channel.
C40_RejectedEventsNoEffect ==
    \A msg \in DiscordEvents :
        /\ NotForGateway(msg) => \A k \in ChannelTypes : ~CanTouch(msg, k)
        /\ ~NotForGateway(msg) => \A k \in ChannelTypes \ {KindOf(msg)} : ~CanTouch(msg, k)

\* A message is queued on one kind, a request waits on the other, and more
\* events can arrive.
C40_Witness ==
    /\ nextStamp <= MaxMsgs
    /\ readyHandler # "idle"
    /\ \E k \in ChannelTypes : messageQueues[k] # <<>>
    /\ \E k \in ChannelTypes : waitingResolvers[k] # NoCall
    /\ ALLOWED_USER_ID # Unset


\* ======================================================================
\* The chat messages of the primary channel, seen by both listeners
\* ======================================================================
\* The bot account is one: the daemon hands its own DISCORD_BOT_TOKEN to the
\* gateway, so a message sent by the gateway is authored by discordClient.user
\* of the daemon.
BOT == "bot"
STATUS_PREFIX == "**WIRED #"
INJECT_PREFIX == "[INJECT]"
NoPrefix == ""

\* A message of a user or of another bot: not ours, no prefix, not a reply.
Foreign(msg) == msg @@ [ours |-> FALSE, prefix |-> NoPrefix, reply |-> <<>>]

\* The message that the chat platform dispatches for entry n of what the
\* gateway sent to the channel of kind k: authored by our bot.
Echo(k, n) ==
    [bot |-> TRUE, ours |-> TRUE, authorId |-> BOT, channelId |-> ChannelIdOf(k),
     createdAt |-> nextStamp, prefix |-> NoPrefix, reply |-> <<k, n>>]

\* sendToClaudeStdin(text) in the messageCreate listener of the daemon; the
\* line is kept together with the message it was made from.
InjectFrom(s, source, msg) ==
    {w @@ [from |-> msg] :
        w \in sendToClaudeStdin(s, Line(source, msg.createdAt)) \ stdinWrites}
    \cup stdinWrites

\* The lines written once the daemon's messageCreate listener has handled msg.
onMessageCreate(s, msg) ==
    IF msg.channelId = TARS_CHANNEL_ID
    THEN IF msg.bot /\ ~msg.ours THEN stdinWrites
         ELSE IF msg.ours /\ msg.prefix = STATUS_PREFIX THEN stdinWrites
         ELSE InjectFrom(s, "LAIN", msg)
    ELSE IF msg.channelId = ROMILLY_CHANNEL_ID
    THEN IF ~msg.bot THEN stdinWrites
         ELSE IF msg.prefix # INJECT_PREFIX THEN stdinWrites
         ELSE InjectFrom(s, "ROMILLY", msg)
    ELSE stdinWrites

\* One messageCreate event, dispatched to the client of the daemon and to the
\* client of the gateway.
dispatch(s, msg) ==
    /\ pc[s] = "online"
    /\ readyHandler # "idle"
    /\ messageCreate(msg)
    /\ stdinWrites' = onMessageCreate(s, msg)
    /\ UNCHANGED <<stateFiles, pc, instanceNumber, shuttingDown, claudeProcess,
                   romillyProcess, spawnCount, claudeTimers, romillyTimers,
                   startTimers, sessionActive, now, purged, injections>>
    /\ UNCHANGED xvars

\* A user or another bot posts a message.
userPosts(s) == \E msg \in DiscordEvents : dispatch(s, Foreign(msg))

Echoed(k, n) ==
    \E w \in stdinWrites : "from" \in DOMAIN w /\ w.from.reply = <<k, n>>

\* The platform dispatches a message that the gateway sent.
replyEvent(s, k, n) ==
    /\ n \in 1..Len(outbox[k])
    /\ ~Echoed(k, n)
    /\ dispatch(s, Echo(k, n))

\* The gateway is started by the Claude child.
ChildUp(s) == Running(claudeProcess[s])

\* One supervisor with its Claude child, the gateway of that child, the
\* messages posted on the channels, and the child's requests.
NextFlow ==
    \/ UNCHANGED xvars /\ main(SUPERVISOR)
    \/ UNCHANGED xvars /\ findAvailableInstance(SUPERVISOR)
    \/ UNCHANGED xvars /\ createInstanceChannels(SUPERVISOR)
    \/ UNCHANGED xvars /\ startChildren(SUPERVISOR)
    \/ UNCHANGED xvars /\ startLoop(SUPERVISOR)
    \/ ChildUp(SUPERVISOR) /\ gatewayMain
    \/ serverConnect
    \/ onReady
    \/ \E fetched \in SUBSET ChannelTypes : readyDone(fetched)
    \/ userPosts(SUPERVISOR)
    \/ \E k \in ChannelTypes : \E n \in 1..MaxSends : replyEvent(SUPERVISOR, k, n)
    \/ UNCHANGED <<dvars, xvars>> /\ waitRequest
    \/ \E k \in ChannelTypes \cup {Undefined} : send_reply(k, Text(1))
    \/ \E i \in SendIds : sendResolves(i)
    \/ \E i \in SendIds : sendRejects(i)

SpecFlow == InitTools /\ [][NextFlow]_avars

\* The lines that the daemon's listener wrote.
ListenerLines == {w \in stdinWrites : "from" \in DOMAIN w}

\* C36: a message of a user on the primary channel is not both written to
\* the child's input by the daemon and returned to the child by a
\* wait_for_message of the gateway.
C36_ReachesChildOnce ==
    \A w \in ListenerLines :
        (~w.from.bot /\ Accepted(w.from) /\ w.from.channelId = TARS_CHANNEL_ID)
        => ~\E c \in CallIds :
               /\ IsMessage(calls[c].result)
               /\ calls[c].result.timestamp = w.from.createdAt

\* C37: what the child sends to the primary channel with send_reply is
\* neither queued by the gateway nor written to the child's input by the
\* daemon.
C37_ReplyNotFedBack ==
    [][\A k \in ChannelTypes : \A n \in 1..MaxSends :
          (ENABLED replyEvent(SUPERVISOR, k, n) /\ replyEvent(SUPERVISOR, k, n))
          => /\ stdinWrites' = stdinWrites
             /\ messageQueues' = messageQueues
             /\ calls' = calls]_avars

\* C38: a request to the HTTP endpoint writes no line tagged LAIN or ROMILLY.
C38_HttpCannotForgeTag ==
    [][IsHttpInject => \A w \in NewLines : w.text.source \notin {"LAIN", "ROMILLY"}]_dvars


\* ======================================================================
\* C33, C34, C35: children and the record during and after shutdown
\* ======================================================================
\* The step spawns a child of the kind for supervisor s.
IsSpawnOf(s, kind) == spawnCount'[s][kind] # spawnCount[s][kind]

\* C33: once shutdown has started, no child is spawned or respawned.
C33_NoSpawnInShutdown ==
    [][\A s \in Supervisors : \A kind \in ChildKinds :
          shuttingDown[s] => ~IsSpawnOf(s, kind)]_avars

\* C34: after shutdown has removed the record of the slot, the supervisor
\* does not write it again, and a supervisor that has exited with code 0
\* after a shutdown has no record in the store.
C34_NoRecordAfterShutdown ==
    /\ [][\A s \in Supervisors :
            (shuttingDown[s] /\ ~HasRecord(s)) => ~HasRecord(s)']_avars
    /\ [](\A s \in Supervisors :
            (shuttingDown[s] /\ pc[s] = "exited" /\ exitCode[s] = 0) => ~HasRecord(s))

\* C35: a child is spawned only when the previous child of its kind has
\* exited (or there was none), so a supervisor has at most one live Claude
\* child and at most one live ROMILLY child.
C35_OneLiveChildPerKind ==
    [][\A s \in Supervisors :
          /\ IsSpawnOf(s, "claude") => ~Running(claudeProcess[s])
          /\ IsSpawnOf(s, "romilly") => ~Running(romillyProcess[s])]_avars

\* Both children were respawned after an exit and run again.
C35_Witness ==
    /\ spawnCount[SUPERVISOR].claude >= 2
    /\ spawnCount[SUPERVISOR].romilly >= 2
    /\ Running(claudeProcess[SUPERVISOR])
    /\ Running(romillyProcess[SUPERVISOR])


\* ======================================================================
\* C31: the consultation of JARVIS (src/mcp/wired-gateway/index.js:793-884)
\* ======================================================================
\* JavaScript values, as far as the consultation looks at them.
Undef == [type |-> "undefined"]
JsNull == [type |-> "null"]
Number(n) == [type |-> "number", value |-> n]
String(t) == [type |-> "string", text |-> t]
IsNumber(v) == v.type = "number"
Truthy(v) == v.type \notin {"undefined", "null"} /\ ~(IsNumber(v) /\ v.value = 0)

\* An object with the fields of a directive; a field that is absent is Undef.
\* observations holds the score of each observation.
Directive(overall_score, correction, observations, score) ==
    [type |-> "object", overall_score |-> overall_score, correction |-> correction,
     observations |-> observations, score |-> score]

\* A string with the value JSON.parse gives for it, or NotJson.
NotJson == [type |-> "invalid"]
JsonText(parsed) == [type |-> "string", parsed |-> parsed]

\* The objects JARVIS may put into 'answer'.
AnswerObjects ==
    {Directive(o, c, obs, Undef) :
        o \in {Undef, Number(360), String("high")},
        c \in {JsNull, String("correction")},
        obs \in {<<>>, <<Number(300)>>}}

Answers ==
    {Undef, Number(42), JsonText(NotJson), JsonText(JsNull), JsonText(Number(42))}
    \cup AnswerObjects \cup {JsonText(d) : d \in AnswerObjects}

\* What execAsync and the regular expression give: the call fails or times
\* out; stdout has no {...}; the {...} does not parse; or it parses to a
\* wrapper with these fields.
JarvisOutcomes ==
    {[exec |-> e, stdout |-> "", wrapper |-> [answer |-> Undef, score |-> Undef, decision |-> Undef]] :
        e \in {"failed"}}
    \cup
    {[exec |-> "ok", stdout |-> t, wrapper |-> [answer |-> Undef, score |-> Undef, decision |-> Undef]] :
        t \in {"text", "{text}"}}
    \cup
    {[exec |-> "ok", stdout |-> "{json}", wrapper |-> w] :
        w \in [answer : Answers,
               score : {Undef, Number(360), String("high")},
               decision : {Undef, String("GO"), Number(1)}]}

\* 'Fallback if no JSON'
fallback == Directive(Number(390), JsNull, <<Number(300)>>, Undef)
\* the directive of the catch block
errorDirective == Directive(Number(380), JsNull, <<Number(300)>>, Undef)

\* directive.observer = 'ROMILLY' in a module (strict mode): a TypeError when
\* the value is null or not an object, which the outer catch handles.
Stamped(v) == IF v.type = "object" THEN v ELSE errorDirective

\* The directive that consultJarvis returns.
consultJarvis(outcome) ==
    LET w == outcome.wrapper IN
    IF outcome.exec = "failed" THEN errorDirective
    ELSE IF outcome.stdout = "text" THEN fallback
    ELSE IF outcome.stdout = "{text}" THEN errorDirective
    ELSE IF Truthy(w.answer)
    THEN IF w.answer.type = "string"
         THEN IF w.answer.parsed # NotJson
              THEN Stamped(w.answer.parsed)
              \* answer is plain text: jarvisWrapper.decision?.includes('GO')
              ELSE IF w.decision.type = "number" THEN errorDirective
              ELSE Directive(IF w.decision = String("GO") THEN Number(400) ELSE Number(350),
                             Undef, <<Undef>>, Undef)
         ELSE Stamped(w.answer)
    ELSE Directive(IF Truthy(w.score) THEN w.score ELSE Number(380),
                   Undef, <<Undef>>, Undef)

CONCERNING == 370

RECURSIVE Sum(_)
Sum(seq) == IF seq = <<>> THEN 0 ELSE Head(seq).value + Sum(Tail(seq))

RECURSIVE MinOf(_)
MinOf(seq) ==
    IF Len(seq) = 1 THEN Head(seq).value ELSE Min(Head(seq).value, MinOf(Tail(seq)))

\* Math.round of the average of a non-empty sequence of numbers.
RoundedAverage(seq) == (2 * Sum(seq) + Len(seq)) \div (2 * Len(seq))

\* The score fullAudit reports: the weakest-link rule over the scores of the
\* observations, or overall_score || score || 380 without observations.
AuditScore(directive) ==
    LET scores == SelectSeq(directive.observations, IsNumber)
        minObsScore == IF scores = <<>> THEN 420 ELSE MinOf(scores)
        avgScore == IF scores = <<>> THEN 380 ELSE RoundedAverage(scores)
    IN
    IF directive.observations = <<>>
    THEN IF Truthy(directive.overall_score) THEN directive.overall_score
         ELSE IF Truthy(directive.score) THEN directive.score
         ELSE Number(380)
    ELSE IF minObsScore < 370 THEN Number(minObsScore)
    ELSE IF minObsScore < 400 THEN Number(Min(avgScore, 399))
    ELSE Number(avgScore)

\* score < CONFIG.THRESHOLDS.CONCERNING && directive.correction
Injects(directive) ==
    LET score == AuditScore(directive) IN
    /\ IsNumber(score)
    /\ score.value < CONCERNING
    /\ Truthy(directive.correction)

\* One run of fullAudit in the ROMILLY child of supervisor s: the
\* consultation, the report (a rejected send is logged by
\* sendToRomillyChannel) and, for a concerning score with a correction,
\* sendToTars.
auditRun(s, outcome) ==
    LET directive == consultJarvis(outcome) IN
    /\ romillyMain[s] = "active"
    /\ Len(directives) < MaxAudits
    /\ directives' = Append(directives,
           [outcome |-> outcome, directive |-> directive,
            injected |-> Injects(directive)])
    /\ IF Injects(directive)
       THEN ipcInject(s, [type |-> "inject", content |-> TRUE])
       ELSE UNCHANGED <<vars, dvars>>
    /\ UNCHANGED <<romillyMain, chatUp>>

\* One supervisor with its children and the audits of the overwatcher.
NextAudit ==
    \/ UNCHANGED xvars /\ main(SUPERVISOR)
    \/ UNCHANGED xvars /\ findAvailableInstance(SUPERVISOR)
    \/ UNCHANGED xvars /\ createInstanceChannels(SUPERVISOR)
    \/ UNCHANGED xvars /\ startChildren(SUPERVISOR)
    \/ UNCHANGED <<shvars, tvars>> /\ forkRomilly(SUPERVISOR)
    \/ romillyReady(SUPERVISOR)
    \/ UNCHANGED <<shvars, tvars>> /\ \E outcome \in JarvisOutcomes : auditRun(SUPERVISOR, outcome)

SpecAudit == InitOverwatch /\ [][NextAudit]_avars

\* The consultation failed: the call itself, or the parsing of its output.
IsFailure(outcome) == outcome.exec = "failed" \/ outcome.stdout \in {"text", "{text}"}

\* C31: whatever JARVIS returns and whenever the call fails, the directive
\* of the consultation has a numeric overall score; a failed consultation
\* gives a fallback directive, which has no correction and injects nothing;
\* and the next audit can run.
C31_ConsultAlwaysScored ==
    /\ \A n \in 1..Len(directives) :
          /\ IsNumber(directives[n].directive.overall_score)
          /\ IsFailure(directives[n].outcome) =>
                /\ directives[n].directive \in {fallback, errorDirective}
                /\ ~Truthy(directives[n].directive.correction)
                /\ ~directives[n].injected
    /\ (romillyMain[SUPERVISOR] = "active" /\ Len(directives) < MaxAudits)
          => \A outcome \in JarvisOutcomes :
                ENABLED (UNCHANGED <<shvars, tvars>> /\ auditRun(SUPERVISOR, outcome))

====
